---- MODULE Spec2Model ----
(***************************************************************************)
(* Model of the CryptoSage A2A agent (emmanueldev247/hng-stage3-task).     *)
(* Strings are sequences of one-character strings, so that the text        *)
(* operations of the source (lower, strip, replace, slicing, the regular   *)
(* expressions of intent.py) are computed character by character.          *)
(***************************************************************************)
EXTENDS Integers, Sequences, FiniteSets, TLC

\* ------------------------------------------------------------------ bounds
MaxWords == 3
MaxFields == 2
MaxRequests == 2
MaxDispatch == 1
MaxTicks == 1
MaxItems == 3
MaxOver == 2
MaxOps == 3
MaxTime == 3
MaxCallers == 2
MaxThreads == 2
MaxPrice == 2

VARIABLES itext, ilabel, icount, icoin, ipc,
          sa1, sa2, sid1, sid2, spc,
          world, req, resp, did, nreq, nticks,
          eparams, eout,
          csets, cout, nops,
          acall, alock, aflight, aended,
          rtoken, renv, rout,
          mthr, mstored,
          hinline, hstored, hout,
          lturns, lread, lops,
          osets, oget, oops

intentVars == <<itext, ilabel, icount, icoin, ipc>>
sessVars == <<sa1, sa2, sid1, sid2, spc>>
mainVars == <<world, req, resp, did, nreq, nticks>>
extractVars == <<eparams, eout>>
cacheVars == <<csets, cout, nops>>
aliasVars == <<acall, alock, aflight, aended>>
resolveVars == <<rtoken, renv, rout>>
memVars == <<mthr, mstored>>
histVars == <<hinline, hstored, hout>>
logVars == <<lturns, lread, lops>>
outageVars == <<osets, oget, oops>>
auxVars == <<extractVars, cacheVars, aliasVars, resolveVars, memVars, histVars, logVars, outageVars>>
notIntent == <<sessVars, mainVars, auxVars>>
notSession == <<intentVars, mainVars, auxVars>>
notMain == <<intentVars, sessVars, auxVars>>
notExtract == <<intentVars, sessVars, mainVars, cacheVars, aliasVars, resolveVars, memVars, histVars, logVars, outageVars>>
notCache == <<intentVars, sessVars, extractVars, aliasVars, resolveVars, memVars, histVars, logVars, outageVars>>
notAlias == <<intentVars, sessVars, extractVars, cacheVars, resolveVars, memVars, histVars, logVars, outageVars>>
notResolve == <<intentVars, sessVars, extractVars, cacheVars, aliasVars, memVars, histVars, logVars, outageVars>>
notMem == <<intentVars, sessVars, extractVars, cacheVars, aliasVars, resolveVars, histVars, logVars, outageVars>>
notHist == <<intentVars, sessVars, mainVars, extractVars, cacheVars, aliasVars, resolveVars, memVars, logVars, outageVars>>
notLog == <<intentVars, sessVars, extractVars, cacheVars, aliasVars, resolveVars, memVars, histVars, outageVars>>
notOutage == <<intentVars, sessVars, extractVars, cacheVars, aliasVars, resolveVars, memVars, histVars, logVars>>
vars == <<itext, ilabel, icount, icoin, ipc, sa1, sa2, sid1, sid2, spc,
          world, req, resp, did, nreq, nticks, eparams, eout, csets, cout,
          nops, acall, alock, aflight, aended, rtoken, renv, rout, mthr,
          mstored, hinline, hstored, hout, lturns, lread, lops, osets, oget,
          oops>>

\* ------------------------------------------------------- string primitives
\* Python None where a string is expected
None == <<"#None">>

Upper == <<"A", "B", "C", "D", "E", "F", "G", "H", "I", "J", "K", "L", "M",
           "N", "O", "P", "Q", "R", "S", "T", "U", "V", "W", "X", "Y", "Z">>
Lowers == <<"a", "b", "c", "d", "e", "f", "g", "h", "i", "j", "k", "l", "m",
            "n", "o", "p", "q", "r", "s", "t", "u", "v", "w", "x", "y", "z">>
Digits == <<"0", "1", "2", "3", "4", "5", "6", "7", "8", "9">>

Range(f) == {f[x] : x \in DOMAIN f}

UpperSet == Range(Upper)
LowerSet == Range(Lowers)
DigitSet == Range(Digits)
LowerOf == [c \in UpperSet |-> Lowers[CHOOSE k \in 1..26 : Upper[k] = c]]
UpperOf == [c \in LowerSet |-> Upper[CHOOSE k \in 1..26 : Lowers[k] = c]]
DigitOf == [c \in DigitSet |-> (CHOOSE k \in 1..10 : Digits[k] = c) - 1]

IsUpper(c) == c \in UpperSet
IsLower(c) == c \in LowerSet
IsDigit(c) == c \in DigitSet
\* \s of the re module and the characters str.strip() removes
IsWs(c) == c \in {" ", "\t", "\n"}
\* \w of the re module
IsWord(c) == IsUpper(c) \/ IsLower(c) \/ IsDigit(c) \/ c = "_"
\* str.isalnum()
IsAlnum(c) == IsUpper(c) \/ IsLower(c) \/ IsDigit(c)

LowerChar(c) == IF IsUpper(c) THEN LowerOf[c] ELSE c
UpperChar(c) == IF IsLower(c) THEN UpperOf[c] ELSE c
DigitVal(c) == DigitOf[c]

\* str.lower()
Lower(s) == [k \in 1..Len(s) |-> LowerChar(s[k])]

\* s[a:b] with 1-based inclusive bounds
Slice(s, a, b) == IF a > b THEN <<>> ELSE [k \in 1..(b - a + 1) |-> s[a + k - 1]]

\* str.strip()
Strip(s) ==
  LET nonws == {k \in 1..Len(s) : ~IsWs(s[k])}
  IN IF nonws = {} THEN <<>>
     ELSE LET a == CHOOSE k \in nonws : \A m \in nonws : k <= m
              b == CHOOSE k \in nonws : \A m \in nonws : k >= m
          IN Slice(s, a, b)

Min(S) == CHOOSE x \in S : \A y \in S : x <= y
Max(S) == CHOOSE x \in S : \A y \in S : x >= y

\* w occurs in t at position i
SubAt(t, i, w) ==
  /\ i >= 1
  /\ i + Len(w) - 1 <= Len(t)
  /\ \A k \in 1..Len(w) : t[i + k - 1] = w[k]

\* `w in t`
Contains(t, w) == \E i \in 1..Len(t) : SubAt(t, i, w)

\* first index >= i that is past the end or holds a character outside the class
WsRunEnd(t, i) ==
  CHOOSE j \in i..(Len(t) + 1) :
    /\ \A k \in i..(j - 1) : IsWs(t[k])
    /\ (j = Len(t) + 1 \/ ~IsWs(t[j]))

DigitRunEnd(t, i) ==
  CHOOSE j \in i..(Len(t) + 1) :
    /\ \A k \in i..(j - 1) : IsDigit(t[k])
    /\ (j = Len(t) + 1 \/ ~IsDigit(t[j]))

CoinRunEnd(t, i) ==
  CHOOSE j \in i..(Len(t) + 1) :
    /\ \A k \in i..(j - 1) : (IsWord(t[k]) \/ t[k] = "-")
    /\ (j = Len(t) + 1 \/ ~(IsWord(t[j]) \/ t[j] = "-"))

\* -------------------------------------------------------------- word stock
s_news == <<"n", "e", "w", "s">>
s_headline == <<"h", "e", "a", "d", "l", "i", "n", "e">>
s_detail == <<"d", "e", "t", "a", "i", "l">>
s_info == <<"i", "n", "f", "o">>
s_of == <<"o", "f">>
s_price == <<"p", "r", "i", "c", "e">>
s_worth == <<"w", "o", "r", "t", "h">>
s_value == <<"v", "a", "l", "u", "e">>
s_rate == <<"r", "a", "t", "e">>
s_top == <<"t", "o", "p">>
s_best == <<"b", "e", "s", "t">>
s_worst == <<"w", "o", "r", "s", "t">>
s_loser == <<"l", "o", "s", "e", "r">>
s_losers == <<"l", "o", "s", "e", "r", "s">>
s_trending == <<"t", "r", "e", "n", "d", "i", "n", "g">>
s_hot == <<"h", "o", "t">>
s_coins == <<"c", "o", "i", "n", "s">>
s_crypto == <<"c", "r", "y", "p", "t", "o">>

s_btc == <<"b", "t", "c">>
s_hello == <<"h", "e", "l", "l", "o">>
s_bob == <<"b", "o", "b">>
s_acme == <<"a", "c", "m", "e">>

\* ---------------------------------------------------------------- intent.py
\* the alternations of the four patterns, as literal words (re.I: matched
\* against the lowercased text)
PriceWords == {s_price, s_worth, s_value, s_rate}
TopWords == {s_top, s_best}
WorstWords == {s_worst, s_loser, s_losers}
TrendWords == {s_trending, s_hot}
CoinWords == {s_coins, s_crypto}

\* PRICE_RE matches at position i: word, \s+, "of", \s+, [\w\-]+ ; the value is
\* the position of the captured group, 0 when there is no match at i
PriceGroupAt(t, i) ==
  LET lt == Lower(t)
      ends == {i + Len(w) : w \in {w \in PriceWords : SubAt(lt, i, w)}}
      ok == {j \in ends :
               /\ j <= Len(t) /\ IsWs(t[j])
               /\ LET k == WsRunEnd(t, j)
                  IN /\ SubAt(lt, k, s_of)
                     /\ k + 2 <= Len(t) /\ IsWs(t[k + 2])
                     /\ LET m == WsRunEnd(t, k + 2)
                        IN m <= Len(t) /\ (IsWord(t[m]) \/ t[m] = "-")}
  IN IF ok = {} THEN 0
     ELSE LET j == Min(ok) IN WsRunEnd(t, WsRunEnd(t, j) + 2)

\* PRICE_RE.search(t)
PRICE_RE(t) ==
  LET starts == {i \in 1..Len(t) : PriceGroupAt(t, i) > 0}
  IN IF starts = {} THEN [found |-> FALSE, group |-> None]
     ELSE LET g == PriceGroupAt(t, Min(starts))
          IN [found |-> TRUE, group |-> Slice(t, g, CoinRunEnd(t, g) - 1)]

\* a count pattern (word)\s+(\d{1,2})?\s*(?:coins|cryptos?) matches at i with
\* nd digits captured: the set of nd for which it matches
CountDigitsAt(words, t, i) ==
  LET lt == Lower(t)
      ends == {i + Len(w) : w \in {w \in words : SubAt(lt, i, w)}}
  IN {nd \in 0..2 :
        \E j \in ends :
          /\ j <= Len(t) /\ IsWs(t[j])
          /\ LET k == WsRunEnd(t, j)
             IN /\ \A d \in 0..(nd - 1) : k + d <= Len(t) /\ IsDigit(t[k + d])
                /\ \/ \E w \in CoinWords : SubAt(lt, WsRunEnd(t, k + nd), w)
                   \* \s+ gives back whitespace so that \s* can be followed
                   \* at once by the word: only without a captured number
                   \/ nd = 0 /\ \E w \in CoinWords : SubAt(lt, k, w)}

\* rx.search(t) for a count pattern: group is the captured number, -1 for None
CountSearch(words, t) ==
  LET starts == {i \in 1..Len(t) : CountDigitsAt(words, t, i) # {}}
  IN IF starts = {} THEN [found |-> FALSE, group |-> -1]
     ELSE LET i == Min(starts)
              nd == Max(CountDigitsAt(words, t, i))
              j == Min({i + Len(w) : w \in {w \in words : SubAt(Lower(t), i, w)
                                              /\ i + Len(w) <= Len(t)
                                              /\ IsWs(t[i + Len(w)])}})
              k == WsRunEnd(t, j)
          IN [found |-> TRUE,
              group |-> IF nd = 0 THEN -1
                        ELSE IF nd = 1 THEN DigitVal(t[k])
                        ELSE 10 * DigitVal(t[k]) + DigitVal(t[k + 1])]

TOP_RE(t) == CountSearch(TopWords, t)
WORST_RE(t) == CountSearch(WorstWords, t)
TREND_RE(t) == CountSearch(TrendWords, t)

Labels == {"news", "price", "top", "worst", "trending", "detail", "unknown"}

\* mutant: the price pattern is tried before the news keywords
classify_priceFirst(text) ==
  LET t == Lower(text)
  IN IF PRICE_RE(t).found THEN "price"
     ELSE IF Contains(t, s_news) \/ Contains(t, s_headline) THEN "news"
     ELSE IF TOP_RE(t).found THEN "top"
     ELSE IF WORST_RE(t).found THEN "worst"
     ELSE IF TREND_RE(t).found THEN "trending"
     ELSE IF Contains(t, s_detail) \/ Contains(t, s_info) THEN "detail"
     ELSE "unknown"

classify(text) ==
  LET t == Lower(text)
  IN IF Contains(t, s_news) \/ Contains(t, s_headline) THEN "news"
     ELSE IF PRICE_RE(t).found THEN "price"
     ELSE IF TOP_RE(t).found THEN "top"
     ELSE IF WORST_RE(t).found THEN "worst"
     ELSE IF TREND_RE(t).found THEN "trending"
     ELSE IF Contains(t, s_detail) \/ Contains(t, s_info) THEN "detail"
     ELSE "unknown"

extract_coin_from_price(text) ==
  LET m == PRICE_RE(text)
  IN IF m.found THEN Lower(m.group) ELSE None

CountDefault == 10
CountLo == 1
CountHi == 50

Clamp(n) == Max({CountLo, Min({CountHi, n})})

\* a or b or c of three match results
FirstMatch(a, b, c) == IF a.found THEN a ELSE IF b.found THEN b ELSE c

\* the count of a match result: the clamped number, the default without one
CountOf(m, default) ==
  IF m.found
    THEN Clamp(IF m.group # -1 THEN m.group ELSE default)
    ELSE default

extract_count(text, default) ==
  CountOf(FirstMatch(TOP_RE(text), WORST_RE(text), TREND_RE(text)), default)

\* ------------------------------------------- a2a_routes.py: _get_session_id
NormMaxLen == 128

\* str.replace(" ", "_")
SpaceToUnderscore(s) == [k \in 1..Len(s) |-> IF s[k] = " " THEN "_" ELSE s[k]]

\* mutant: the value is not lowercased
norm_noLower(s) ==
  LET s0 == IF s = None THEN <<>> ELSE s
      r == SpaceToUnderscore(Strip(s0))
  IN Slice(r, 1, Min({Len(r), NormMaxLen}))

\* norm: (s or "").strip().lower().replace(" ", "_")[:128]
norm(s) ==
  LET s0 == IF s = None THEN <<>> ELSE s
      r == SpaceToUnderscore(Lower(Strip(s0)))
  IN Slice(r, 1, Min({Len(r), NormMaxLen}))

\* a JSON value of the metadata mapping: a string, an integer (s is str(v))
\* or anything else
NoValue == [s |-> <<>>, t |-> "none"]

\* lowered.get(lk) of pick: the dict comprehension keeps the last pair whose
\* lowercased key is lk
LoweredGet(d, lk) ==
  LET idx == {i \in 1..Len(d) : Lower(d[i][1]) = lk}
  IN IF idx = {} THEN NoValue ELSE d[Max(idx)][2]

\* pick(d, *keys): the value of the first key whose value is a str or an int
pick(d, keys) ==
  IF Len(d) = 0 THEN None
  ELSE LET hits == {i \in 1..Len(keys) :
                      LoweredGet(d, Lower(keys[i])).t \in {"str", "int"}}
       IN IF hits = {} THEN None
          ELSE LoweredGet(d, Lower(keys[Min(hits)])).s

k_user_id == <<"u", "s", "e", "r", "_", "i", "d">>
k_userId == <<"u", "s", "e", "r", "I", "d">>
k_user == <<"u", "s", "e", "r">>
k_telex_user_id == <<"t", "e", "l", "e", "x", "_", "u", "s", "e", "r", "_", "i", "d">>
k_org_id == <<"o", "r", "g", "_", "i", "d">>
k_orgId == <<"o", "r", "g", "I", "d">>
k_organization_id == <<"o", "r", "g", "a", "n", "i", "z", "a", "t", "i", "o", "n", "_", "i", "d">>
k_workspace_id == <<"w", "o", "r", "k", "s", "p", "a", "c", "e", "_", "i", "d">>
k_team_id == <<"t", "e", "a", "m", "_", "i", "d">>
k_installation_id == <<"i", "n", "s", "t", "a", "l", "l", "a", "t", "i", "o", "n", "_", "i", "d">>
k_telex_org_id == <<"t", "e", "l", "e", "x", "_", "o", "r", "g", "_", "i", "d">>
h_x_user_id == <<"x", "-", "u", "s", "e", "r", "-", "i", "d">>
h_x_telex_user_id == <<"x", "-", "t", "e", "l", "e", "x", "-", "u", "s", "e", "r", "-", "i", "d">>
h_x_org_id == <<"x", "-", "o", "r", "g", "-", "i", "d">>
h_x_telex_org_id == <<"x", "-", "t", "e", "l", "e", "x", "-", "o", "r", "g", "-", "i", "d">>
h_x_workspace_id == <<"x", "-", "w", "o", "r", "k", "s", "p", "a", "c", "e", "-", "i", "d">>
h_x_session_id == <<"x", "-", "s", "e", "s", "s", "i", "o", "n", "-", "i", "d">>
s_anonymous == <<"a", "n", "o", "n", "y", "m", "o", "u", "s">>

UserMetaKeys == <<k_user_id, k_userId, k_user, k_telex_user_id>>
OrgMetaKeys == <<k_org_id, k_orgId, k_organization_id, k_workspace_id,
                 k_team_id, k_installation_id, k_telex_org_id>>
UserHeaders == <<h_x_user_id, h_x_telex_user_id>>
OrgHeaders == <<h_x_org_id, h_x_telex_org_id, h_x_workspace_id>>

\* hdr = {k.lower(): v for k, v in req.headers.items()} and hdr.get(name):
\* the last header of that lowercased name, None when there is none
HdrGet(headers, name) ==
  LET idx == {i \in 1..Len(headers) : Lower(headers[i][1]) = name}
  IN IF idx = {} THEN None ELSE headers[Max(idx)][2]

\* hdr.get(n1) or hdr.get(n2) or ...: the first truthy value, else the last
RECURSIVE HdrOr(_, _)
HdrOr(headers, names) ==
  LET v == HdrGet(headers, names[1])
  IN IF Len(names) = 1 THEN v
     ELSE IF v # None /\ v # <<>> THEN v
     ELSE HdrOr(headers, Tail(names))

\* x or y on strings
StrOr(x, y) == IF x # <<>> THEN x ELSE y

\* mutant: the session header is preferred to the user and org identities
get_session_id_sessionFirst(headers, params) ==
  LET meta == IF params.metadata = None THEN <<>> ELSE params.metadata
      user_id == StrOr(StrOr(norm(params.user_id), norm(pick(meta, UserMetaKeys))),
                       norm(HdrOr(headers, UserHeaders)))
      org_id == StrOr(StrOr(norm(params.org_id), norm(pick(meta, OrgMetaKeys))),
                      norm(HdrOr(headers, OrgHeaders)))
      channel == norm(params.channel_id)
      sid_hdr == norm(HdrGet(headers, h_x_session_id))
  IN IF org_id # <<>> /\ user_id # <<>>
       THEN org_id \o <<":">> \o user_id
       ELSE StrOr(StrOr(StrOr(StrOr(sid_hdr, user_id), org_id), channel),
                  s_anonymous)

get_session_id(headers, params) ==
  LET meta == IF params.metadata = None THEN <<>> ELSE params.metadata
      user_id == StrOr(StrOr(norm(params.user_id), norm(pick(meta, UserMetaKeys))),
                       norm(HdrOr(headers, UserHeaders)))
      org_id == StrOr(StrOr(norm(params.org_id), norm(pick(meta, OrgMetaKeys))),
                      norm(HdrOr(headers, OrgHeaders)))
      channel == norm(params.channel_id)
      sid_hdr == norm(HdrGet(headers, h_x_session_id))
  IN IF org_id # <<>> /\ user_id # <<>>
       THEN org_id \o <<":">> \o user_id
       ELSE StrOr(StrOr(StrOr(StrOr(user_id, org_id), sid_hdr), channel),
                  s_anonymous)

\* ----------------------------------------------------------------- telex.py
\* replace every occurrence of pat in s by rep, leftmost first
RECURSIVE ReplaceAll(_, _, _)
ReplaceAll(s, pat, rep) ==
  LET hits == {i \in 1..Len(s) : SubAt(s, i, pat)}
  IN IF hits = {} THEN s
     ELSE LET i == Min(hits)
          IN Slice(s, 1, i - 1) \o rep
             \o ReplaceAll(Slice(s, i + Len(pat), Len(s)), pat, rep)

\* html.unescape, for the entities &lt; &gt; &amp;
unescape(s) ==
  ReplaceAll(ReplaceAll(ReplaceAll(s, <<"&", "l", "t", ";">>, <<"<">>),
                        <<"&", "g", "t", ";">>, <<">">>),
             <<"&", "a", "m", "p", ";">>, <<"&">>)

\* _TAGS_RE.sub(" ", s): every <[^>]*> becomes one space
RECURSIVE StripTags(_)
StripTags(s) ==
  LET opens == {i \in 1..Len(s) : s[i] = "<" /\ \E j \in (i + 1)..Len(s) : s[j] = ">"}
  IN IF opens = {} THEN s
     ELSE LET i == Min(opens)
              j == Min({j \in (i + 1)..Len(s) : s[j] = ">"})
          IN Slice(s, 1, i - 1) \o <<" ">> \o StripTags(Slice(s, j + 1, Len(s)))

\* _WS_RE.sub(" ", s): every run of whitespace becomes one space
RECURSIVE CollapseWs(_)
CollapseWs(s) ==
  LET ws == {i \in 1..Len(s) : IsWs(s[i])}
  IN IF ws = {} THEN s
     ELSE LET i == Min(ws)
          IN Slice(s, 1, i - 1) \o <<" ">>
             \o CollapseWs(Slice(s, WsRunEnd(s, i), Len(s)))

\* x or "" for an optional string
OrEmpty(x) == IF x = None THEN <<>> ELSE x

clean_text(raw) ==
  IF raw = None \/ raw = <<>> THEN <<>>
  ELSE Strip(CollapseWs(StripTags(unescape(raw))))

\* JSON values of a message.  A part or a data item that is a JSON object has
\* t = "dict", a kind, an optional text and an optional data list; anything
\* else has t = "nondict".  The parts field is a list, absent (or falsy), or
\* a non-empty mapping, a non-empty string or a non-zero number.
TextPart(t) == [t |-> "dict", text |-> t, kind |-> "text", data |-> <<>>]
DataPart(items) == [t |-> "dict", text |-> None, kind |-> "data", data |-> items]
OtherPart == [t |-> "dict", text |-> None, kind |-> "other", data |-> <<>>]
NonDict == [t |-> "nondict", text |-> None, kind |-> "", data |-> <<>>]

NoParts == [t |-> "absent", items |-> <<>>]
ListParts(items) == [t |-> "list", items |-> items]
NoMessage ==
  [t |-> "absent", text |-> None, parts |-> NoParts, taskId |-> None,
   messageId |-> None]
NoMetadata == [t |-> "absent", pairs |-> <<>>]

\* message = (params_obj or {}).get("message") or {}
MessageOf(params) ==
  IF params.t = "dict" /\ params.message.t # "absent" THEN params.message
  ELSE [NoMessage EXCEPT !.t = "dict"]

\* parts = message.get("parts") or [] ; len(parts), parts[i]
PartsLen(parts) == IF parts.t \in {"list", "str", "dict"} THEN Len(parts.items) ELSE 0
IsDataPart(p) == p.t = "dict" /\ p.kind = "data"
IsTextPart(p) == p.t = "dict" /\ p.kind = "text"

\* the cleaned, non-empty texts of the text items of a data part
CleanedItems(items) ==
  LET texts == SelectSeq(items, LAMBDA di : di.t = "dict" /\ di.kind = "text"
                                          /\ clean_text(OrEmpty(di.text)) # <<>>)
  IN [k \in 1..Len(texts) |-> clean_text(OrEmpty(texts[k].text))]

\* seq[:n] in the place of seq[-n:]
LastN_firstN(seq, n) == IF Len(seq) <= n THEN seq ELSE SubSeq(seq, 1, n)

\* seq[-n:]
LastN(seq, n) == IF Len(seq) <= n THEN seq ELSE SubSeq(seq, Len(seq) - n + 1, Len(seq))

InlineHistMax == 20

\* extract_text_and_data_master; raises when message is not a mapping, when
\* parts has no length (a number) or is a mapping (it has no key 0 or 1)
extract_text_and_data_master(params) ==
  LET message == MessageOf(params)
  IN IF message.t # "dict" THEN [text |-> None, exc |-> TRUE, hist |-> <<>>]
     ELSE
     LET parts == message.parts
     IN IF parts.t \in {"num", "dict"}
          THEN [text |-> None, exc |-> TRUE, hist |-> <<>>]
        ELSE
        LET isList == parts.t = "list"
            hasData == isList /\ Len(parts.items) > 1 /\ IsDataPart(parts.items[2])
            inline_hist == IF hasData
                             THEN LastN(CleanedItems(parts.items[2].data), InlineHistMax)
                             ELSE <<>>
            fromData == IF inline_hist # <<>> THEN inline_hist[Len(inline_hist)] ELSE None
            t0 == IF isList /\ Len(parts.items) > 0 /\ IsTextPart(parts.items[1])
                    THEN clean_text(OrEmpty(parts.items[1].text)) ELSE <<>>
            fromPart0 == IF fromData # None THEN fromData
                         ELSE IF t0 # <<>> THEN t0 ELSE None
            mt == clean_text(OrEmpty(message.text))
            eff_text == IF fromPart0 # None THEN fromPart0
                        ELSE IF mt # <<>> THEN mt ELSE None
        IN [text |-> eff_text, exc |-> FALSE, hist |-> inline_hist]

\* the stripped, non-empty texts of the text items of a data part
RawItems(items) ==
  LET texts == SelectSeq(items, LAMBDA di : di.t = "dict" /\ di.kind = "text"
                                          /\ Strip(OrEmpty(di.text)) # <<>>)
  IN [k \in 1..Len(texts) |-> Strip(OrEmpty(texts[k].text))]

\* extract_text_and_data_slave; every failure inside is swallowed
extract_text_and_data_slave(params) ==
  LET message == MessageOf(params)
  IN IF message.t # "dict" THEN [text |-> None, exc |-> FALSE, hist |-> <<>>]
     ELSE
     LET parts == message.parts
         isList == parts.t = "list"
         p0 == IF isList /\ Len(parts.items) > 0 /\ IsTextPart(parts.items[1])
                 THEN Strip(OrEmpty(parts.items[1].text)) ELSE <<>>
         inline_hist == IF isList /\ Len(parts.items) > 1 /\ IsDataPart(parts.items[2])
                          THEN RawItems(parts.items[2].data) ELSE <<>>
         e == Strip(OrEmpty(message.text))
         eff_text == IF p0 # <<>> THEN p0 ELSE IF e # <<>> THEN e ELSE None
     IN [text |-> eff_text, exc |-> FALSE, hist |-> LastN(inline_hist, InlineHistMax)]

\* ------------------------------------------------- the process and its stores
\* JSON values held by the caches and returned by the providers
JNull == [t |-> "null", v |-> 0]
JNum(n) == [t |-> "num", v |-> n]
JList(s) == [t |-> "list", v |-> s]
JDict(pairs) == [t |-> "dict", v |-> pairs]

JBool(b) == [t |-> "bool", v |-> b]
JStr(s) == [t |-> "str", v |-> s]
JArr(items) == [t |-> "arr", v |-> items]
JObj(pairs) == [t |-> "obj", v |-> pairs]

\* bool(x) of a JSON value
Truthy(j) ==
  CASE j.t = "null" -> FALSE
    [] j.t = "num" -> j.v # 0
    [] j.t = "bool" -> j.v
    [] OTHER -> Len(j.v) > 0

\* ---- json.dumps: the text of a value, with the separators ", " and ": "
RECURSIVE NatText(_)
NatText(n) ==
  IF n < 10 THEN <<Digits[n + 1]>> ELSE NatText(n \div 10) \o <<Digits[(n % 10) + 1]>>

IntText(n) == IF n < 0 THEN <<"-">> \o NatText(0 - n) ELSE NatText(n)

RECURSIVE EscapeText(_)
EscapeText(s) ==
  IF s = <<>> THEN <<>>
  ELSE (IF Head(s) \in {"\"", "\\"} THEN <<"\\", Head(s)>> ELSE <<Head(s)>>)
       \o EscapeText(Tail(s))

QuotedText(s) == <<"\"">> \o EscapeText(s) \o <<"\"">>

RECURSIVE JsonText(_), JsonItems(_), JsonPairs(_)
JsonText(j) ==
  CASE j.t = "null" -> <<"n", "u", "l", "l">>
    [] j.t = "bool" -> IF j.v THEN <<"t", "r", "u", "e">> ELSE <<"f", "a", "l", "s", "e">>
    [] j.t = "num" -> IntText(j.v)
    [] j.t = "str" -> QuotedText(j.v)
    [] j.t = "arr" -> <<"[">> \o JsonItems(j.v) \o <<"]">>
    [] j.t = "obj" -> <<"{">> \o JsonPairs(j.v) \o <<"}">>

JsonItems(items) ==
  IF items = <<>> THEN <<>>
  ELSE IF Len(items) = 1 THEN JsonText(items[1])
  ELSE JsonText(items[1]) \o <<",", " ">> \o JsonItems(Tail(items))

JsonPairs(pairs) ==
  IF pairs = <<>> THEN <<>>
  ELSE IF Len(pairs) = 1
    THEN QuotedText(pairs[1][1]) \o <<":", " ">> \o JsonText(pairs[1][2])
  ELSE QuotedText(pairs[1][1]) \o <<":", " ">> \o JsonText(pairs[1][2])
       \o <<",", " ">> \o JsonPairs(Tail(pairs))

\* the text that stands for a payload of a provider
PayloadText == <<"#">>

\* json.dumps.  The payloads of the providers (the values JList and JDict)
\* are carried whole beside PayloadText; every other value is written out.
dumps(j) ==
  IF j.t \in {"list", "dict"} THEN [text |-> PayloadText, raw |-> j]
  ELSE [text |-> JsonText(j), raw |-> JNull]

\* ---- json.loads: the value of a text, read from position i
Parsed(val, next) == [val |-> val, next |-> next]

RECURSIVE ParseNat(_, _, _)
ParseNat(text, i, acc) ==
  IF i <= Len(text) /\ IsDigit(text[i])
    THEN ParseNat(text, i + 1, 10 * acc + DigitVal(text[i]))
    ELSE Parsed(acc, i)

RECURSIVE ParseString(_, _, _)
ParseString(text, i, acc) ==
  IF text[i] = "\"" THEN Parsed(acc, i + 1)
  ELSE IF text[i] = "\\" THEN ParseString(text, i + 2, Append(acc, text[i + 1]))
  ELSE ParseString(text, i + 1, Append(acc, text[i]))

Negated(p) == Parsed(JNum(0 - p.val), p.next)
AsNum(p) == Parsed(JNum(p.val), p.next)
AsStr(p) == Parsed(JStr(p.val), p.next)

RECURSIVE ParseValue(_, _), ParseItems(_, _, _), ParsePairs(_, _, _)
ParseValue(text, i) ==
  CASE text[i] = "n" -> Parsed(JNull, i + 4)
    [] text[i] = "t" -> Parsed(JBool(TRUE), i + 4)
    [] text[i] = "f" -> Parsed(JBool(FALSE), i + 5)
    [] text[i] = "-" -> Negated(ParseNat(text, i + 1, 0))
    [] IsDigit(text[i]) -> AsNum(ParseNat(text, i, 0))
    [] text[i] = "\"" -> AsStr(ParseString(text, i + 1, <<>>))
    [] text[i] = "[" -> IF text[i + 1] = "]" THEN Parsed(JArr(<<>>), i + 2)
                        ELSE ParseItems(text, i + 1, <<>>)
    [] text[i] = "{" -> IF text[i + 1] = "}" THEN Parsed(JObj(<<>>), i + 2)
                        ELSE ParsePairs(text, i + 1, <<>>)

\* the items of an array from position i, behind the items acc
ItemParsed(text, acc, v) ==
  IF text[v.next] = ","
    THEN ParseItems(text, v.next + 2, Append(acc, v.val))
    ELSE Parsed(JArr(Append(acc, v.val)), v.next + 1)

ParseItems(text, i, acc) == ItemParsed(text, acc, ParseValue(text, i))

\* the pairs of an object from position i, behind the pairs acc
PairParsed(text, acc, k, v) ==
  IF text[v.next] = ","
    THEN ParsePairs(text, v.next + 2, Append(acc, <<k.val, v.val>>))
    ELSE Parsed(JObj(Append(acc, <<k.val, v.val>>)), v.next + 1)

KeyParsed(text, acc, k) == PairParsed(text, acc, k, ParseValue(text, k.next + 2))

ParsePairs(text, i, acc) == KeyParsed(text, acc, ParseString(text, i + 1, <<>>))

\* json.loads
loads(raw) == IF raw.text = PayloadText THEN raw.raw ELSE ParseValue(raw.text, 1).val

\* bool(raw) of a stored text
RawTruthy(raw) == Len(raw.text) > 0

EmptyMap == [k \in {} |-> 0]
Put(f, k, v) == (k :> v) @@ f
Remove(f, k) == [x \in DOMAIN f \ {k} |-> f[x]]

\* core/config.py
CACHE_TTL_SHORT == 300
ALIAS_TTL == 3600
CHAT_HISTORY_TTL == 86400

\* a key of the Redis server is visible until its expiry time (0: no expiry)
RedisLive(store, key, now) ==
  key \in DOMAIN store /\ (store[key].exp = 0 \/ now < store[key].exp)

\* the Redis client answers when it was created at import and the server is up
RedisAnswers(st) == st.redis_client /\ st.up

\* _mem_get without the eviction of the expired entry
mem_get_keepsExpired(st, key) ==
  IF key \notin DOMAIN st.mem THEN [raw |-> dumps(JNull), st |-> st, hit |-> FALSE]
  ELSE IF st.mem[key].exp # 0 /\ st.mem[key].exp < st.now
         THEN [raw |-> dumps(JNull), st |-> st, hit |-> FALSE]
  ELSE [raw |-> st.mem[key].raw, st |-> st, hit |-> TRUE]

\* cache.py: _mem_get, with its lazy eviction
mem_get(st, key) ==
  IF key \notin DOMAIN st.mem THEN [raw |-> dumps(JNull), st |-> st, hit |-> FALSE]
  ELSE IF st.mem[key].exp # 0 /\ st.mem[key].exp < st.now
         THEN [raw |-> dumps(JNull), st |-> [st EXCEPT !.mem = Remove(st.mem, key)],
               hit |-> FALSE]
  ELSE [raw |-> st.mem[key].raw, st |-> st, hit |-> TRUE]

\* cache.py: _mem_set
mem_set(st, key, raw, ex) ==
  [st EXCEPT !.mem = Put(st.mem, key, [raw |-> raw,
                                      exp |-> IF ex # 0 THEN st.now + ex ELSE 0])]

\* cache.py: get_json (ex = 0 stands for no expiry)
get_json(st, key) ==
  IF RedisAnswers(st)
    THEN [val |-> IF RedisLive(st.rkv, key, st.now) /\ RawTruthy(st.rkv[key].raw)
                    THEN loads(st.rkv[key].raw) ELSE JNull,
          st |-> st]
    ELSE LET m == mem_get(st, key)
         IN [val |-> IF m.hit /\ RawTruthy(m.raw) THEN loads(m.raw) ELSE JNull,
             st |-> m.st]

\* cache.py: set_json
set_json(st, key, value, ex) ==
  IF RedisAnswers(st)
    THEN [st EXCEPT !.rkv = Put(st.rkv, key, [raw |-> dumps(value),
                                            exp |-> IF ex # 0 THEN st.now + ex ELSE 0])]
    ELSE mem_set(st, key, dumps(value), ex)

\* session_store.py
PREFIX == <<"h", "i", "s", "t", "o", "r", "y", ":">>
SessionKey(session_id) == PREFIX \o session_id

\* json.dumps({"user": user_msg, "assistant": assistant_msg}) of append: the
\* user text is written out; the assistant text, a content, is carried whole
\* beside the text, where PayloadText stands for it
k_assistant == <<"a", "s", "s", "i", "s", "t", "a", "n", "t">>

TurnText(user_msg, assistant_msg) ==
  [text |-> JsonText(JObj(<<<<k_user, JStr(user_msg)>>,
                            <<k_assistant, JStr(PayloadText)>>>>)),
   raw |-> assistant_msg]

\* json.loads(item) of get_history: the mapping read back from the text
ObjGet(o, key) == o.v[CHOOSE i \in 1..Len(o.v) : o.v[i][1] = key][2]

TurnLoaded(item, o) ==
  [user |-> ObjGet(o, k_user).v,
   assistant |-> item.raw]

TurnOf(item) == TurnLoaded(item, ParseValue(item.text, 1).val)

\* append with lpush in place of rpush
SessionStore_append_lpush(st, session_id, user_msg, assistant_msg) ==
  LET key == SessionKey(session_id)
      old == IF RedisLive(st.rlist, key, st.now) THEN st.rlist[key].turns ELSE <<>>
      turn == TurnText(user_msg, assistant_msg)
  IN IF ~st.redis_client THEN st
     ELSE IF ~st.up THEN st
     ELSE [st EXCEPT !.rlist = Put(st.rlist, key,
                                  [exp |-> IF CHAT_HISTORY_TTL <= 0 THEN 0
                                           ELSE st.now + CHAT_HISTORY_TTL,
                                   turns |-> <<turn>> \o old])]

\* SessionStore.append: rpush of the turn and expire of the list; skipped when
\* there is no client, and a failure of the server is logged and swallowed
SessionStore_append(st, session_id, user_msg, assistant_msg) ==
  LET key == SessionKey(session_id)
      old == IF RedisLive(st.rlist, key, st.now) THEN st.rlist[key].turns ELSE <<>>
      turn == TurnText(user_msg, assistant_msg)
  IN IF ~st.redis_client THEN st
     ELSE IF ~st.up THEN st
     ELSE [st EXCEPT !.rlist = Put(st.rlist, key,
                                  [exp |-> IF CHAT_HISTORY_TTL <= 0 THEN 0
                                           ELSE st.now + CHAT_HISTORY_TTL,
                                   turns |-> Append(old, turn)])]

\* SessionStore.get_history: lrange of the whole list
SessionStore_get_history(st, session_id) ==
  LET key == SessionKey(session_id)
  IN IF ~st.redis_client \/ ~st.up THEN <<>>
     ELSE IF RedisLive(st.rlist, key, st.now)
       THEN [k \in 1..Len(st.rlist[key].turns) |-> TurnOf(st.rlist[key].turns[k])]
       ELSE <<>>
key_price == <<"p", "r", "i", "c", "e", ":">>
key_usd == <<":", "u", "s", "d">>
key_news == <<"n", "e", "w", "s", ":", "c", "o", "i", "n", "d", "e", "s", "k", ":", "5">>
key_markets == <<"m", "a", "r", "k", "e", "t", "s", ":", "t", "o", "p", ":">>
key_trending == <<"t", "r", "e", "n", "d", "i", "n", "g">>
CACHE_KEY == <<"c", "o", "i", "n", "_", "a", "l", "i", "a", "s", "e", "s", ":", "v", "1">>

\* ------------------------------------------------ the upstream data providers
c_bitcoin == <<"b", "i", "t", "c", "o", "i", "n">>
c_btc == <<"b", "t", "c">>
n_Bitcoin == <<"B", "i", "t", "c", "o", "i", "n">>
c_ethereum == <<"e", "t", "h", "e", "r", "e", "u", "m">>
c_eth == <<"e", "t", "h">>
n_Ethereum == <<"E", "t", "h", "e", "r", "e", "u", "m">>
c_tether == <<"t", "e", "t", "h", "e", "r">>
c_usdt == <<"u", "s", "d", "t">>
n_Tether == <<"T", "e", "t", "h", "e", "r">>
c_solana == <<"s", "o", "l", "a", "n", "a">>
c_sol == <<"s", "o", "l">>
n_Solana == <<"S", "o", "l", "a", "n", "a">>
c_dogecoin == <<"d", "o", "g", "e", "c", "o", "i", "n">>
c_doge == <<"d", "o", "g", "e">>
n_Dogecoin == <<"D", "o", "g", "e", "c", "o", "i", "n">>
c_batcat == <<"b", "a", "t", "c", "a", "t">>
n_BatCat == <<"B", "a", "t", " ", "C", "a", "t">>

Coin(id, symbol, name, price, change, cap) ==
  [name |-> name, id |-> id, symbol |-> symbol, current_price |-> price,
   price_change_percentage_24h |-> change, market_cap |-> cap]

\* the market listing of the provider, by market capitalisation
MarketData ==
  << Coin(c_bitcoin, c_btc, n_Bitcoin, 67000, 2, 900),
     Coin(c_ethereum, c_eth, n_Ethereum, 3000, -3, 400),
     Coin(c_tether, c_usdt, n_Tether, 1, 0, 100),
     Coin(c_solana, c_sol, n_Solana, 150, 5, 70),
     Coin(c_dogecoin, c_doge, n_Dogecoin, 0, -1, 20) >>

\* the full coin list of the provider; its second coin reuses the symbol btc
CoinList ==
  << Coin(c_bitcoin, c_btc, n_Bitcoin, 0, 0, 0),
     Coin(c_batcat, c_btc, n_BatCat, 0, 0, 0) >>

TrendingData ==
  << [name |-> n_Solana, id |-> c_solana, symbol |-> c_sol, score |-> 0,
      market_cap_rank |-> 4],
     [name |-> n_Dogecoin, id |-> c_dogecoin, symbol |-> c_doge, score |-> 1,
      market_cap_rank |-> 5] >>

Headlines == << <<"h", "1">>, <<"h", "2">> >>

\* what one request meets upstream: the alias listings, the data fetch (and
\* the length of the market list it returns) and the language model
ProviderOutcomes == {"ok", "none", "raise"}
AliasOutcomes == {"ok", "first_fails", "second_fails"}
ComposeOutcomes == {"text", "empty", "api_error", "client_error"}

\* every collaborator answers, the market list has three coins
NominalEnv == [provider |-> "ok", count |-> 3, alias |-> "ok", compose |-> "text"]

\* coingecko.py: get_price; None when the provider does not know the coin
get_price(env, coin) ==
  CASE env.provider = "raise" -> [exc |-> TRUE, val |-> JNull]
    [] env.provider = "none" -> [exc |-> FALSE, val |-> JNull]
    [] OTHER ->
         LET known == {i \in 1..Len(MarketData) : MarketData[i].id = coin}
         IN [exc |-> FALSE,
             val |-> IF known = {} THEN JNull
                     ELSE JNum(MarketData[Min(known)].current_price)]

\* coingecko.py: get_markets; the provider decides how many coins it returns
get_markets(env, limit) ==
  CASE env.provider = "raise" -> [exc |-> TRUE, val |-> JNull]
    [] env.provider = "none" -> [exc |-> FALSE, val |-> JList(<<>>)]
    [] OTHER -> [exc |-> FALSE, val |-> JList(SubSeq(MarketData, 1, env.count))]

\* coingecko.py: get_trending
get_trending(env) ==
  CASE env.provider = "raise" -> [exc |-> TRUE, val |-> JNull]
    [] env.provider = "none" -> [exc |-> FALSE, val |-> JList(<<>>)]
    [] OTHER -> [exc |-> FALSE, val |-> JList(TrendingData)]

\* coingecko.py: get_coin_detail; None on a 404
get_coin_detail(env, coin_id) ==
  CASE env.provider = "raise" -> [exc |-> TRUE, val |-> JNull]
    [] env.provider = "none" -> [exc |-> FALSE, val |-> JNull]
    [] OTHER ->
         LET known == {i \in 1..Len(MarketData) : MarketData[i].id = coin_id}
         IN [exc |-> FALSE,
             val |-> IF known = {} THEN JNull
                     ELSE JDict(<<MarketData[Min(known)]>>)]

\* news.py: get_headlines never raises; None when both feeds fail
get_headlines(env) ==
  IF env.provider = "ok" THEN JList(Headlines) ELSE JNull

\* ---------------------------------------------------------------- aliases.py
\* aliases.get(key) on the list of (alias, id) pairs
AliasGet(aliases, key) ==
  LET hits == {i \in 1..Len(aliases) : aliases[i][1] = key}
  IN IF hits = {} THEN None ELSE aliases[Min(hits)][2]

\* aliases.setdefault(key, cid): the first writer of a key wins
setdefault(aliases, key, cid) ==
  IF AliasGet(aliases, key) # None THEN aliases ELSE Append(aliases, <<key, cid>>)

\* the loop over one listing of _fetch_aliases
RECURSIVE AddListing(_, _)
AddListing(aliases, listing) ==
  IF listing = <<>> THEN aliases
  ELSE LET c == Head(listing)
           cid == Lower(c.id)
           sym == Lower(c.symbol)
           nm == Lower(c.name)
           a1 == IF cid # <<>> /\ sym # <<>> THEN setdefault(aliases, sym, cid)
                 ELSE aliases
           a2 == IF cid # <<>> /\ nm # <<>> THEN setdefault(a1, nm, cid) ELSE a1
       IN AddListing(a2, Tail(listing))

\* _fetch_aliases: a failure of either listing is swallowed and what was
\* built so far is returned
fetch_aliases(env) ==
  CASE env.alias = "first_fails" -> <<>>
    [] env.alias = "second_fails" -> AddListing(<<>>, MarketData)
    [] OTHER -> AddListing(AddListing(<<>>, MarketData), CoinList)

\* get_aliases: the cached table when it is a non-empty mapping, else a fetch
\* whose non-empty result is cached for ALIAS_TTL
get_aliases(st, env) ==
  LET g1 == get_json(st, CACHE_KEY)
  IN IF g1.val.t = "dict" /\ Truthy(g1.val)
       THEN [st |-> g1.st, aliases |-> g1.val.v, fetched |-> FALSE]
     ELSE
     LET g2 == get_json(g1.st, CACHE_KEY)
     IN IF g2.val.t = "dict" /\ Truthy(g2.val)
          THEN [st |-> g2.st, aliases |-> g2.val.v, fetched |-> FALSE]
        ELSE
        LET Fetch(aliases) ==
              [st |-> IF aliases # <<>>
                       THEN set_json(g2.st, CACHE_KEY, JDict(aliases), ALIAS_TTL)
                       ELSE g2.st,
               aliases |-> aliases,
               fetched |-> TRUE]
        IN Fetch(fetch_aliases(env))

\* "".join(ch for ch in key if ch.isalnum())
AlnumOnly(s) == SelectSeq(s, IsAlnum)

\* resolve_coin_id
resolve_coin_id(st, env, maybe) ==
  IF maybe = None \/ maybe = <<>> THEN [st |-> st, coin |-> None, fetched |-> FALSE]
  ELSE LET Lookup(key, g) ==
             LET cid == AliasGet(g.aliases, key)
                 key2 == AlnumOnly(key)
             IN [st |-> g.st,
                 coin |-> IF cid # None /\ cid # <<>> THEN cid
                          ELSE IF key2 # key THEN AliasGet(g.aliases, key2)
                          ELSE None, fetched |-> g.fetched]
       IN Lookup(Lower(Strip(maybe)), get_aliases(st, env))

\* ------------------------------------------- a2a_routes.py: the intent dispatcher
\* A content is the text of a response: the model's text (possibly empty),
\* one of the fixed texts of the code, or a Markdown list built from rows
Content(kind) == [n |-> 0, kind |-> kind, title |-> "", rows |-> <<>>]
EmptyContent == Content("empty")

\* bool(content) of a content string
NonEmpty(content) == content.kind # "empty"

ToUpper(s) == [k \in 1..Len(s) |-> UpperChar(s[k])]

\* _md_top_list(title, coins): one numbered line per coin
md_top_list(title, n, coins) ==
  [n |-> n, kind |-> "md_top_list", title |-> title,
   rows |-> [i \in 1..Len(coins) |->
               [name |-> coins[i].name, symbol |-> ToUpper(coins[i].symbol),
                rank |-> i]]]

\* the fixed instructions the dispatcher gives the model instead of the user text
p_ask_coin == <<"#ask_for_coin">>
p_price_failed == <<"#price_fetch_failed">>
p_summarize == <<"#summarize_headlines">>

\* the fact sheet of a compose call; "" and null stand for absent entries
NoFacts ==
  [count |-> 0, coin |-> None, intent |-> "", price_usd |-> JNull, list |-> <<>>,
   headlines |-> <<>>, error |-> "", detail |-> JNull, data_source |-> ""]

\* The work of one request: the stores, the compose calls made, the turns
\* handed to the session store and the upstream fetches made
Work(st) == [st |-> st, fetched |-> <<>>, calls |-> <<>>, appended |-> <<>>]

Fetched(x, what) == [x EXCEPT !.fetched = Append(@, what)]

\* ai._mk_messages.  A message carries a text (system and user messages), a
\* content (assistant messages) or a fact sheet (the [FACTS] message)
RecentMax == 30

ChatMessage(role, text, content, facts) ==
  [text |-> text, content |-> content, role |-> role, facts |-> facts]
SystemMessage == ChatMessage("system", <<"#system_prompt">>, EmptyContent, NoFacts)
UserMessage(u) == ChatMessage("user", u, EmptyContent, NoFacts)
AssistantMessage(a) == ChatMessage("assistant", <<>>, a, NoFacts)
FactsMessage(facts) == ChatMessage("user", <<"#facts">>, EmptyContent, facts)

\* the loop over the recent turns: the user text and the assistant text of
\* a turn become messages when they are not empty
RECURSIVE TurnMessages(_)
TurnMessages(recent) ==
  IF recent = <<>> THEN <<>>
  ELSE (IF Strip(OrEmpty(Head(recent).user)) # <<>>
          THEN <<UserMessage(Strip(OrEmpty(Head(recent).user)))>> ELSE <<>>)
       \o (IF NonEmpty(Head(recent).assistant)
             THEN <<AssistantMessage(Head(recent).assistant)>> ELSE <<>>)
       \o TurnMessages(Tail(recent))

\* recent = history[-30:]
Recent(history) == LastN(history, RecentMax)

mk_messages_wholeHistory(user_text, history, facts) ==
  <<SystemMessage>> \o TurnMessages(history)
    \o (IF facts # NoFacts THEN <<FactsMessage(facts)>> ELSE <<>>)
    \o <<UserMessage(user_text)>>

mk_messages(user_text, history, facts) ==
  <<SystemMessage>> \o TurnMessages(Recent(history))
    \o (IF facts # NoFacts THEN <<FactsMessage(facts)>> ELSE <<>>)
    \o <<UserMessage(user_text)>>

\* ai.compose_response: the client is obtained outside the try, so a client
\* that cannot be created raises; a failed completion gives the fixed apology
compose_response(x, env, user_text, history, facts) ==
  LET x1 == [x EXCEPT !.calls = Append(@, [facts |-> facts,
                                           history |-> history, user_text |-> user_text])]
  IN CASE env.compose = "client_error" -> [x |-> x1, exc |-> TRUE, content |-> EmptyContent]
       [] env.compose = "api_error" -> [x |-> x1, exc |-> FALSE, content |-> Content("apology")]
       [] env.compose = "empty" -> [x |-> x1, exc |-> FALSE, content |-> EmptyContent]
       [] OTHER -> [x |-> x1, exc |-> FALSE, content |-> Content("composed")]

\* _append_history_safe
append_history_safe(x, session_id, user_text, assistant_text) ==
  [x EXCEPT !.st = SessionStore_append(x.st, session_id, user_text, assistant_text),
            !.appended = Append(@, [user |-> user_text, assistant |-> assistant_text,
                                    sid |-> session_id])]

\* _safe_set_json
safe_set_json(x, key, value, ex) == [x EXCEPT !.st = set_json(x.st, key, value, ex)]

\* the two ways a branch ends: the turn is appended and the content returned,
\* or an exception leaves _handle_invoke
Done(x, session_id, user_text, content) ==
  [x |-> append_history_safe(x, session_id, user_text, content), exc |-> FALSE,
   content |-> content]
Raised(x) == [x |-> x, exc |-> TRUE, content |-> EmptyContent]

\* compose, then append and return; an exception of compose propagates
ComposeAndDone(x, env, session_id, user_text, prompt, history, facts) ==
  LET c == compose_response(x, env, prompt, history, facts)
  IN IF c.exc THEN Raised(c.x) ELSE Done(c.x, session_id, user_text, c.content)

\* _ai_error_result
ai_error_result(x, env, session_id, user_text, history, intent, coin) ==
  ComposeAndDone(x, env, session_id, user_text, user_text, history,
                 [NoFacts EXCEPT !.intent = intent, !.error = "coin_not_found",
                                 !.coin = coin, !.data_source = "CoinGecko"])

\* the price branch without the look into the cache: every request fetches
PriceBranch_fetchesOnHit(x, env, sid, user_text, history) ==
  LET Resolved(r) ==
        LET x1 == IF r.fetched THEN Fetched([x EXCEPT !.st = r.st], "aliases")
                  ELSE [x EXCEPT !.st = r.st]
            coin == r.coin
        IN IF coin = None \/ coin = <<>>
             THEN ComposeAndDone(x1, env, sid, user_text, p_ask_coin, history, NoFacts)
           ELSE
           LET cache_key == key_price \o coin \o key_usd
               g == get_json(x1.st, cache_key)
               x2 == [x1 EXCEPT !.st = g.st]
               Failed(y) == ComposeAndDone(y, env, sid, user_text, p_price_failed, history,
                                           [NoFacts EXCEPT !.intent = "price", !.coin = coin])
               Answer(y, price) ==
                 ComposeAndDone(y, env, sid, user_text, user_text, history,
                                [NoFacts EXCEPT !.intent = "price", !.coin = coin,
                                                !.price_usd = price,
                                                !.data_source = "CoinGecko"])
           IN IF FALSE THEN Answer(x2, g.val)
              ELSE LET p == get_price(env, coin)
                       x3 == Fetched(x2, "price")
                   IN IF p.exc THEN Failed(x3)
                      ELSE IF p.val.t = "null"
                        THEN LET e == ai_error_result(x3, env, sid, user_text, history,
                                                      "price", coin)
                             IN IF e.exc THEN Failed(e.x) ELSE e
                      ELSE Answer(safe_set_json(x3, cache_key, p.val, CACHE_TTL_SHORT), p.val)
  IN Resolved(resolve_coin_id(x.st, env, extract_coin_from_price(user_text)))

\* the price branch
PriceBranch(x, env, sid, user_text, history) ==
  LET Resolved(r) ==
        LET x1 == IF r.fetched THEN Fetched([x EXCEPT !.st = r.st], "aliases")
                  ELSE [x EXCEPT !.st = r.st]
            coin == r.coin
        IN IF coin = None \/ coin = <<>>
             THEN ComposeAndDone(x1, env, sid, user_text, p_ask_coin, history, NoFacts)
           ELSE
           LET cache_key == key_price \o coin \o key_usd
               g == get_json(x1.st, cache_key)
               x2 == [x1 EXCEPT !.st = g.st]
               Failed(y) == ComposeAndDone(y, env, sid, user_text, p_price_failed, history,
                                           [NoFacts EXCEPT !.intent = "price", !.coin = coin])
               Answer(y, price) ==
                 ComposeAndDone(y, env, sid, user_text, user_text, history,
                                [NoFacts EXCEPT !.intent = "price", !.coin = coin,
                                                !.price_usd = price,
                                                !.data_source = "CoinGecko"])
           IN IF g.val.t # "null" THEN Answer(x2, g.val)
              ELSE LET p == get_price(env, coin)
                       x3 == Fetched(x2, "price")
                   IN IF p.exc THEN Failed(x3)
                      ELSE IF p.val.t = "null"
                        THEN LET e == ai_error_result(x3, env, sid, user_text, history,
                                                      "price", coin)
                             IN IF e.exc THEN Failed(e.x) ELSE e
                      ELSE Answer(safe_set_json(x3, cache_key, p.val, CACHE_TTL_SHORT), p.val)
  IN Resolved(resolve_coin_id(x.st, env, extract_coin_from_price(user_text)))

\* the news branch
NewsBranch(x, env, sid, user_text, history) ==
  LET g == get_json(x.st, key_news)
      x1 == [x EXCEPT !.st = g.st]
      hit == Truthy(g.val)
      headlines == IF hit THEN g.val ELSE get_headlines(env)
      x2 == IF hit THEN x1 ELSE Fetched(x1, "news")
  IN IF Truthy(headlines)
       THEN LET x3 == safe_set_json(x2, key_news, headlines, CACHE_TTL_SHORT)
                c == compose_response(x3, env, p_summarize, history,
                                      [NoFacts EXCEPT !.intent = "market_news",
                                                      !.headlines = headlines.v,
                                                      !.data_source = "CoinDesk RSS"])
            IN Done(c.x, sid, user_text,
                    IF c.exc THEN Content("news_apology") ELSE c.content)
       ELSE Done(x2, sid, user_text, Content("news_apology"))

\* seq[:n]
FirstN(seq, n) == IF Len(seq) <= n THEN seq ELSE SubSeq(seq, 1, n)

\* sorted(markets, key = the 24h change or 0): ascending and stable
SortedByChange(seq) ==
  LET key(i) == seq[i].price_change_percentage_24h
      pos(i) == 1 + Cardinality({j \in 1..Len(seq) :
                                   key(j) < key(i) \/ (key(j) = key(i) /\ j < i)})
  IN [p \in 1..Len(seq) |-> seq[CHOOSE i \in 1..Len(seq) : pos(i) = p]]

\* str(n) for a count
DecStr(n) ==
  IF n < 10 THEN <<Digits[n + 1]>>
  ELSE <<Digits[(n \div 10) + 1], Digits[(n % 10) + 1]>>

\* the list entry of the fact sheet for the top and worst branches
MarketItems(markets) ==
  [i \in 1..Len(markets) |->
     [name |-> markets[i].name, symbol |-> ToUpper(markets[i].symbol), price |-> markets[i].current_price,
      market_cap |-> markets[i].market_cap,
      rank |-> i,
      change_24h |-> markets[i].price_change_percentage_24h]]

\* the top and worst branches; when the list is not cached and the fetch
\* raises, the handler of the exception reads the unassigned name markets
\* and the resulting UnboundLocalError leaves _handle_invoke
MarketsBranch(x, env, sid, user_text, history, intent) ==
  LET Counted(n) ==
        LET cache_key == key_markets \o DecStr(n)
            g == get_json(x.st, cache_key)
            x1 == [x EXCEPT !.st = g.st]
            hit == Truthy(g.val)
            m == IF hit THEN [exc |-> FALSE, val |-> g.val] ELSE get_markets(env, n)
            x2 == IF hit THEN x1 ELSE Fetched(x1, "markets")
        IN IF m.exc THEN Raised(x2)
           ELSE
           LET x3 == safe_set_json(x2, cache_key, m.val, CACHE_TTL_SHORT)
               fetchedList == IF Truthy(m.val) THEN m.val.v ELSE <<>>
               markets == IF intent = "worst" THEN FirstN(SortedByChange(fetchedList), n)
                          ELSE fetchedList
               title == IF intent = "worst" THEN "Worst n coins (24h)"
                        ELSE "Top n coins by market cap"
               c == compose_response(x3, env, user_text, history,
                                     [NoFacts EXCEPT !.intent = intent, !.count = n,
                                                     !.list = MarketItems(markets),
                                                     !.data_source = "CoinGecko"])
           IN Done(c.x, sid, user_text,
                   IF ~c.exc /\ NonEmpty(c.content) THEN c.content
                   ELSE md_top_list(title, n, markets))
  IN Counted(extract_count(user_text, CountDefault))

TrendingItems(trending) ==
  [i \in 1..Len(trending) |->
     [name |-> trending[i].name, symbol |-> ToUpper(trending[i].symbol), market_cap_rank |-> trending[i].market_cap_rank,
      rank |-> i]]

TrendingMdMax == 10

\* the trending branch; the same unassigned name when the fetch raises
TrendingBranch(x, env, sid, user_text, history) ==
  LET g == get_json(x.st, key_trending)
      x1 == [x EXCEPT !.st = g.st]
      hit == Truthy(g.val)
      m == IF hit THEN [exc |-> FALSE, val |-> g.val] ELSE get_trending(env)
      x2 == IF hit THEN x1 ELSE Fetched(x1, "trending")
  IN IF m.exc THEN Raised(x2)
     ELSE
     LET x3 == safe_set_json(x2, key_trending, m.val, CACHE_TTL_SHORT)
         trending == IF Truthy(m.val) THEN m.val.v ELSE <<>>
         c == compose_response(x3, env, user_text, history,
                               [NoFacts EXCEPT !.intent = "trending",
                                               !.list = TrendingItems(trending),
                                               !.data_source = "CoinGecko"])
         shown == FirstN(trending, TrendingMdMax)
     IN Done(c.x, sid, user_text,
             IF ~c.exc THEN c.content
             ELSE [n |-> 0, kind |-> "trending_md", title |-> "Trending coins",
                   rows |-> [i \in 1..Len(shown) |->
                               [name |-> shown[i].name, symbol |-> ToUpper(shown[i].symbol),
                                rank |-> i]]])

\* user_text.split()[-1]
LastWord(s) ==
  LET t == Strip(s)
      ws == {i \in 1..Len(t) : IsWs(t[i])}
  IN IF ws = {} THEN t ELSE Slice(t, Max(ws) + 1, Len(t))

\* the detail branch
DetailBranch(x, env, sid, user_text, history) ==
  LET Resolved(maybe, r) ==
        LET x1 == IF r.fetched THEN Fetched([x EXCEPT !.st = r.st], "aliases")
                  ELSE [x EXCEPT !.st = r.st]
            coin == IF r.coin # None /\ r.coin # <<>> THEN r.coin ELSE maybe
            d == get_coin_detail(env, coin)
            x2 == Fetched(x1, "detail")
        IN IF d.exc \/ ~Truthy(d.val)
             THEN ai_error_result(x2, env, sid, user_text, history, "detail", coin)
             ELSE ComposeAndDone(x2, env, sid, user_text, user_text, history,
                                 [NoFacts EXCEPT !.intent = "detail", !.detail = d.val,
                                                 !.data_source = "CoinGecko"])
  IN Resolved(Lower(LastWord(user_text)),
              resolve_coin_id(x.st, env, Lower(LastWord(user_text))))

\* the unknown branch: ai.fallback_answer is compose_response
UnknownBranch(x, env, sid, user_text, history) ==
  ComposeAndDone(x, env, sid, user_text, user_text, history, NoFacts)

HistoryMax == 30

\* what _handle_invoke returns, with what it worked on
Returned(r, intent, history, session_id) ==
  [x |-> r.x, exc |-> r.exc, content |-> r.content, intent |-> intent,
   history |-> history, sid |-> session_id]

\* the branches of _handle_invoke on the intent
Branch(st, env, session_id, user_text, merged_history, intent) ==
  LET x == Work(st)
  IN Returned(
       CASE intent = "price" ->
              PriceBranch(x, env, session_id, user_text, merged_history)
         [] intent = "news" ->
              NewsBranch(x, env, session_id, user_text, merged_history)
         [] intent \in {"top", "worst"} ->
              MarketsBranch(x, env, session_id, user_text, merged_history, intent)
         [] intent = "trending" ->
              TrendingBranch(x, env, session_id, user_text, merged_history)
         [] intent = "detail" ->
              DetailBranch(x, env, session_id, user_text, merged_history)
         [] OTHER -> UnknownBranch(x, env, session_id, user_text, merged_history),
       intent, merged_history, session_id)

\* the inline history before the stored one, cut to the last HistoryMax turns
MergedHistory(st, session_id, inline_history) ==
  LET stored_history == SessionStore_get_history(st, session_id)
      inline == [k \in 1..Len(inline_history) |->
                   [user |-> inline_history[k], assistant |-> EmptyContent]]
  IN IF inline_history # <<>>
       THEN LastN(inline \o stored_history, HistoryMax)
       ELSE stored_history

\* _handle_invoke, once the session id is known
WithSession(st, env, session_id, user_text, inline_history) ==
  Branch(st, env, session_id, user_text,
         MergedHistory(st, session_id, inline_history), classify(user_text))

\* _handle_invoke
handle_invoke(st, env, headers, params_like, user_text, inline_history) ==
  WithSession(st, env, get_session_id(headers, params_like), user_text, inline_history)

\* ------------------------------------------------------ jsonrpc.py and invoke
\* A request body is a JSON value: an object, a falsy value (null, {}, [],
\* "", 0) or a truthy value that is not an object.  The id of an object is
\* absent or one of a few JSON values, all written as strings.
IdAbsent == "#absent"
IdNull == "#null"
MethodAbsent == "#absent"

NoParams == [t |-> "absent", text |-> None, metadata |-> NoMetadata,
             message |-> NoMessage]

\* parse_jsonrpc: raises when the body is truthy and has no get
parse_jsonrpc(body) ==
  CASE body.t = "nonobject" -> [params |-> NoParams, exc |-> TRUE, rid |-> "",
                                method |-> MethodAbsent]
    [] body.t = "falsy" -> [params |-> NoParams, exc |-> FALSE, rid |-> "",
                            method |-> MethodAbsent]
    [] OTHER -> [params |-> body.params,
                 exc |-> FALSE,
                 rid |-> IF body.id = IdAbsent THEN "" ELSE body.id,
                 method |-> body.method]

FreshUuid == <<"#uuid4">>

\* make_task_result: the task envelope; echo is None when there is no user
\* message in its history
make_task_result(rid, content, context_id, task_id, state, user_echo) ==
  [kind |-> "envelope", taskId |-> task_id, id |-> rid, content |-> content,
   state |-> state, contextId |-> context_id, echo |-> user_echo]

\* no envelope: the exception left the handler
Escaped ==
  [kind |-> "escaped", taskId |-> None, id |-> "", content |-> EmptyContent,
   state |-> "", contextId |-> None, echo |-> None]

InternalError(rid) ==
  make_task_result(rid, Content("internal_error"), FreshUuid, FreshUuid, "failed", None)

\* what invoke did besides answering: whether the dispatcher was reached,
\* with which session id, intent, text and history, and its work
NotDispatched(w0) ==
  [x |-> Work(w0), text |-> None, intent |-> "", history |-> <<>>,
   sid |-> None, dispatched |-> FALSE]

\* message/send, after _handle_invoke: its content in a completed task, or
\* the internal error when it raised
Dispatched(rid, context_id, task_id, text, r) ==
  LET d == [x |-> r.x, text |-> text, intent |-> r.intent,
            history |-> r.history, sid |-> r.sid, dispatched |-> TRUE]
  IN IF r.exc THEN [resp |-> InternalError(rid), did |-> d]
     ELSE [resp |-> make_task_result(rid, r.content, context_id, task_id,
                                     "completed", text),
           did |-> d]

\* Extracted without the check of the text: an absent text is dispatched as
\* the empty text
Extracted_withoutTextCheck(w0, rid, params, headers, env, context_id, task_id, e) ==
  Dispatched(rid, context_id, task_id, OrEmpty(e.text),
             handle_invoke(w0, env, headers,
                           [metadata |-> <<>>, user_id |-> None, org_id |-> None,
                            channel_id |-> None],
                           OrEmpty(e.text), e.hist))

\* message/send, after the extraction e of the text and the inline history
Extracted(w0, rid, params, headers, env, context_id, task_id, e) ==
  IF e.text = None
    THEN [resp |-> make_task_result(rid, Content("no_text"), context_id, task_id,
                                    "completed", <<>>),
          did |-> NotDispatched(w0)]
  ELSE IF params.t = "dict" /\ params.metadata.t = "nondict"
    THEN [resp |-> InternalError(rid), did |-> NotDispatched(w0)]
  ELSE
  LET meta == IF params.t = "dict" /\ params.metadata.t = "dict"
                THEN params.metadata.pairs ELSE <<>>
      params_like == [metadata |-> meta, user_id |-> None, org_id |-> None,
                      channel_id |-> None]
  IN Dispatched(rid, context_id, task_id, e.text,
                handle_invoke(w0, env, headers, params_like, e.text, e.hist))

\* the master extraction, or the slave one when the master found no text
MasterOrSlave(master, params) ==
  IF master.text # None THEN master ELSE extract_text_and_data_slave(params)

\* the message/send branch of invoke, below the check of params
MessageSend(w0, rid, params, headers, env) ==
  LET message == MessageOf(params)
  IN IF message.t # "dict" \/ message.parts.t \in {"num", "dict"}
       THEN [resp |-> InternalError(rid), did |-> NotDispatched(w0)]
     ELSE Extracted(w0, rid, params, headers, env,
                    IF message.taskId # None THEN message.taskId ELSE FreshUuid,
                    IF message.messageId # None THEN message.messageId ELSE FreshUuid,
                    MasterOrSlave(extract_text_and_data_master(params), params))

\* POST /invoke.  When parse_jsonrpc raises, the handler of the exception
\* reads the unassigned name rid and the UnboundLocalError leaves invoke
invoke(w0, body, headers, env) ==
  LET p == parse_jsonrpc(body)
  IN IF p.exc THEN [resp |-> Escaped, did |-> NotDispatched(w0)]
     ELSE IF p.method = "help"
       THEN [resp |-> make_task_result(p.rid, Content("help"), FreshUuid, FreshUuid,
                                       "completed", None),
             did |-> NotDispatched(w0)]
     ELSE IF p.method = "message/send"
       THEN IF p.params.t = "nondict"
              THEN [resp |-> make_task_result(p.rid, Content("invalid_params"), FreshUuid,
                                              FreshUuid, "failed", None),
                    did |-> NotDispatched(w0)]
              ELSE MessageSend(w0, p.rid, p.params, headers, env)
     ELSE [resp |-> make_task_result(p.rid, Content("unknown_method"), FreshUuid,
                                     FreshUuid, "failed", None),
           did |-> NotDispatched(w0)]

\* ---------------------------------------------------------- idle components
\* Each specification drives one group of variables; the others rest.
NoAssign == [i \in {} |-> 1]

IdleIntent ==
  /\ itext = <<>>
  /\ ilabel = "none"
  /\ icount = 0
  /\ icoin = None
  /\ ipc = "idle"

IdleSession ==
  /\ sa1 = NoAssign
  /\ sa2 = NoAssign
  /\ sid1 = None
  /\ sid2 = None
  /\ spc = "idle"

\* the extractor has not run
NotExtracted == [text |-> None, exc |-> FALSE, hist |-> <<>>, ran |-> FALSE]

IdleExtract ==
  /\ eparams = NoParams
  /\ eout = NotExtracted

\* no get of the cache has been made
NoGet == [val |-> JNull, key |-> None, at |-> 0, avail |-> FALSE, done |-> FALSE]

IdleCache ==
  /\ csets = EmptyMap
  /\ cout = NoGet
  /\ nops = 0

IdleAlias ==
  /\ acall = EmptyMap
  /\ alock = 0
  /\ aflight = {}
  /\ aended = 0

\* resolve_coin_id has not run
NotResolved == [coin |-> None, done |-> FALSE, table |-> <<>>]

IdleResolve ==
  /\ rtoken = None
  /\ renv = NominalEnv
  /\ rout = NotResolved

IdleMem ==
  /\ mthr = EmptyMap
  /\ mstored = {}

\* the history has not been merged
NotMerged == [history |-> <<>>, messages |-> <<>>, stage |-> "start"]

IdleHist ==
  /\ hinline = <<>>
  /\ hstored = <<>>
  /\ hout = NotMerged

\* no read of a session log has been made
NoRead == [turns |-> <<>>, sid |-> None, done |-> FALSE]

IdleLog ==
  /\ lturns = EmptyMap
  /\ lread = NoRead
  /\ lops = 0

\* no get was made during the outages
NoOutageGet ==
  [val |-> JNull, key |-> None, at |-> 0, avail |-> FALSE, done |-> FALSE, seen |-> 0]

IdleOutage ==
  /\ osets = <<>>
  /\ oget = NoOutageGet
  /\ oops = 0

\* every group but the one a specification drives rests
IdleAuxBut(group) ==
  /\ IF group = "extract" THEN TRUE ELSE IdleExtract
  /\ IF group = "cache" THEN TRUE ELSE IdleCache
  /\ IF group = "alias" THEN TRUE ELSE IdleAlias
  /\ IF group = "resolve" THEN TRUE ELSE IdleResolve
  /\ IF group = "mem" THEN TRUE ELSE IdleMem
  /\ IF group = "hist" THEN TRUE ELSE IdleHist
  /\ IF group = "log" THEN TRUE ELSE IdleLog
  /\ IF group = "outage" THEN TRUE ELSE IdleOutage

IdleAux == IdleAuxBut("none")

\* ------------------------------------------------------------ the HTTP service
t_price_bitcoin == <<"p", "r", "i", "c", "e", " ", "o", "f", " ", "b", "i", "t", "c", "o", "i", "n">>
t_price_xyz == <<"p", "r", "i", "c", "e", " ", "o", "f", " ", "x", "y", "z">>
t_top3 == <<"t", "o", "p", " ", "3", " ", "c", "o", "i", "n", "s">>
t_top == <<"t", "o", "p", " ", "c", "o", "i", "n", "s">>
t_worst3 == <<"w", "o", "r", "s", "t", " ", "3", " ", "c", "o", "i", "n", "s">>
t_trending == <<"t", "r", "e", "n", "d", "i", "n", "g">>
t_info_bitcoin == <<"i", "n", "f", "o", " ", "b", "i", "t", "c", "o", "i", "n">>
t_news == <<"n", "e", "w", "s">>
t_blank == <<" ", " ">>
t_tagged == <<"<", "b", ">", "t", "o", "p", "<", "/", "b", ">", " ", "3", "&", "a", "m", "p", ";", "c", "o", "i", "n", "s">>
s_task == <<"t", "1">>
s_msg == <<"m", "1">>

\* the stores of a fresh process: the Redis client of redis_client.py exists
\* when the server answered the ping at import
Stores(client) ==
  [now |-> 0, redis_client |-> client, up |-> client, mem |-> EmptyMap,
   rkv |-> EmptyMap, rlist |-> EmptyMap]

Body(t, id, method, params) == [t |-> t, params |-> params, id |-> id, method |-> method]
FalsyBody == Body("falsy", IdAbsent, MethodAbsent, NoParams)
NonObjectBody == Body("nonobject", IdAbsent, MethodAbsent, NoParams)

Params(message, metadata) ==
  [t |-> "dict", text |-> None, metadata |-> metadata, message |-> message]
Message(parts, text) ==
  [t |-> "dict", text |-> text, parts |-> parts, taskId |-> None, messageId |-> None]
SendText(t) == Params(Message(ListParts(<<TextPart(t)>>), None), NoMetadata)

NoRequest == [headers |-> <<>>, env |-> NominalEnv, body |-> FalsyBody]

\* the record kept of what invoke did
Trace(d) ==
  [text |-> d.text, fetched |-> d.x.fetched, intent |-> d.intent, calls |-> d.x.calls,
   appended |-> d.x.appended, history |-> d.history, sid |-> d.sid,
   dispatched |-> d.dispatched]

\* between two requests there is no response
NoResponse == [Escaped EXCEPT !.kind = "none"]
NoTrace == Trace(NotDispatched(Stores(FALSE)))

IdleMain ==
  /\ world = Stores(FALSE)
  /\ req = NoRequest
  /\ resp = NoResponse
  /\ did = NoTrace
  /\ nreq = 0
  /\ nticks = 0

InitMain ==
  /\ world \in {Stores(TRUE), Stores(FALSE)}
  /\ req = NoRequest
  /\ resp = NoResponse
  /\ did = NoTrace
  /\ nreq = 0
  /\ nticks = 0
  /\ IdleIntent
  /\ IdleSession
  /\ IdleAux

\* one request is handled from its arrival to its response
Handle(body, headers, env, limit) ==
  /\ resp = NoResponse
  /\ nreq < limit
  /\ \E r \in {invoke(world, body, headers, env)} :
       /\ nreq' = nreq + 1
       /\ req' = [headers |-> headers, env |-> env, body |-> body]
       /\ resp' = r.resp
       /\ did' = Trace(r.did)
       /\ world' = r.did.x.st
  /\ UNCHANGED nticks
  /\ UNCHANGED notMain

\* the response has left; the service waits for the next request
Deliver ==
  /\ resp # NoResponse
  /\ req' = NoRequest
  /\ resp' = NoResponse
  /\ did' = NoTrace
  /\ UNCHANGED <<world, nreq, nticks>>
  /\ UNCHANGED notMain

\* the Redis server becomes unreachable, and reachable again
RedisDown ==
  /\ resp = NoResponse
  /\ world.redis_client /\ world.up
  /\ world' = [world EXCEPT !.up = FALSE]
  /\ UNCHANGED <<req, resp, did, nreq, nticks>>
  /\ UNCHANGED notMain

RedisUp ==
  /\ resp = NoResponse
  /\ world.redis_client /\ ~world.up
  /\ world' = [world EXCEPT !.up = TRUE]
  /\ UNCHANGED <<req, resp, did, nreq, nticks>>
  /\ UNCHANGED notMain

\* time passes: the lifetime of a short cache entry
Tick ==
  /\ resp = NoResponse
  /\ nticks < MaxTicks
  /\ nticks' = nticks + 1
  /\ world' = [world EXCEPT !.now = @ + CACHE_TTL_SHORT]
  /\ UNCHANGED <<req, resp, did, nreq>>
  /\ UNCHANGED notMain

\* ---- the requests of the specification Spec: bodies of every shape
RequestIds == {IdAbsent, "", "r1", IdNull}

BobMetadata == [t |-> "dict", pairs |-> << <<k_user_id, [s |-> s_bob, t |-> "str"]>> >>]
NonDictMetadata == [t |-> "nondict", pairs |-> <<>>]

ParamsShapes ==
  { NoParams,
    [NoParams EXCEPT !.t = "nondict"],
    Params(NoMessage, NoMetadata),
    Params([NoMessage EXCEPT !.t = "nondict"], NoMetadata),
    SendText(t_price_bitcoin),
    SendText(t_blank),
    Params(Message(ListParts(<<TextPart(s_hello)>>), None), BobMetadata),
    Params(Message(ListParts(<<TextPart(s_hello)>>), None), NonDictMetadata),
    Params(Message([t |-> "num", items |-> <<>>], s_hello), NoMetadata),
    Params(Message([t |-> "dict", items |-> <<OtherPart>>], s_hello), NoMetadata),
    Params(Message([t |-> "str", items |-> <<NonDict>>], s_hello), NoMetadata),
    Params(Message(ListParts(<<>>), None), NoMetadata),
    Params(Message(NoParts, s_hello), NoMetadata),
    Params(Message(ListParts(<<NonDict>>), t_tagged), NoMetadata),
    Params(Message(ListParts(<<TextPart(s_hello),
                               DataPart(<<TextPart(t_news), NonDict,
                                          TextPart(t_top3)>>)>>), None),
           NoMetadata),
    Params([Message(ListParts(<<TextPart(t_trending)>>), None)
              EXCEPT !.taskId = s_task, !.messageId = s_msg], NoMetadata) }

InvokeParamsShapes ==
  { NoParams, [Params(NoMessage, NoMetadata) EXCEPT !.text = t_price_bitcoin] }

Request(body, headers, env) == [headers |-> headers, env |-> env, body |-> body]

Bodies ==
  {FalsyBody, NonObjectBody}
  \cup {Body("object", id, m, NoParams) :
          id \in RequestIds, m \in {MethodAbsent, "help", "other", "message/send"}}
  \cup {Body("object", id, "invoke", p) : id \in RequestIds, p \in InvokeParamsShapes}
  \cup {Body("object", id, "message/send", SendText(t_price_bitcoin)) : id \in RequestIds}
  \cup {Body("object", "r1", "message/send", p) : p \in ParamsShapes}

HeaderSets == { <<>>, << <<h_x_session_id, s_acme>> >> }

Envs == {NominalEnv, [NominalEnv EXCEPT !.compose = "client_error"],
         [NominalEnv EXCEPT !.provider = "raise"]}

\* every body once, and the bodies that reach the dispatcher under every
\* header set and upstream outcome
Requests ==
  {Request(b, <<>>, NominalEnv) : b \in Bodies}
  \cup {Request(Body("object", "r1", "message/send", p), h, e) :
          p \in {SendText(t_price_bitcoin),
                 Params(Message(ListParts(<<TextPart(s_hello)>>), None), BobMetadata)},
          h \in HeaderSets, e \in Envs}

Invoke ==
  \E r \in Requests : Handle(r.body, r.headers, r.env, MaxRequests)

Next == Invoke \/ Deliver \/ RedisDown \/ RedisUp
Spec == InitMain /\ [][Next]_vars
t_price_btc == <<"p", "r", "i", "c", "e", " ", "o", "f", " ", "B", "T", "C">>

\* ---- the requests of the specification SpecDispatch: message/send requests
\* with a text, under every upstream outcome
DispatchTexts ==
  {t_price_bitcoin, t_price_btc, t_price_xyz, t_news, t_top3, t_top,
   t_worst3, t_trending, t_info_bitcoin, s_hello}

ProviderCounts == {3, 5}

\* the upstream outcomes: at most one collaborator deviates from the nominal
\* outcome, or the provider and the model client fail together
DispatchEnvs ==
  {e \in [provider : ProviderOutcomes, count : ProviderCounts, alias : AliasOutcomes,
          compose : ComposeOutcomes] :
     LET deviations == (IF e.alias # "ok" THEN 1 ELSE 0)
                       + (IF e.provider # "ok" THEN 1 ELSE 0)
                       + (IF e.count # NominalEnv.count THEN 1 ELSE 0)
                       + (IF e.compose # "text" THEN 1 ELSE 0)
     IN \/ deviations <= 1
        \/ e = [NominalEnv EXCEPT !.provider = "raise", !.compose = "client_error"]}

DispatchParams ==
  {SendText(t) : t \in DispatchTexts}
  \cup {Params(Message(ListParts(<<TextPart(s_hello),
                                   DataPart(<<TextPart(t_news), TextPart(t_top3)>>)>>),
                       None), BobMetadata)}

InvokeMessage ==
  \E p \in DispatchParams, e \in DispatchEnvs :
    Handle(Body("object", "r1", "message/send", p), <<>>, e, MaxDispatch)

NextDispatch == InvokeMessage \/ Deliver \/ RedisDown \/ Tick
SpecDispatch == InitMain /\ [][NextDispatch]_vars

\* ------------------------------------------- inputs of the primary extractor
t_a == <<"a">>
t_b == <<"b">>
t_c == <<"c">>
t_tags_only == <<" ", "<", "i", ">", " ">>
t_d_e == <<"<", "b", ">", "d", " ", " ", "e">>
Alphabet ==
  <<"a", "b", "c", "d", "e", "f", "g", "h", "i", "j", "k", "l", "m", "n", "o",
    "p", "q", "r", "s", "t", "u", "v", "w", "x", "y", "z">>

\* the items of a data part: text items whose text cleans to itself, to
\* another text or to nothing, and an item that is not a mapping
DataItems ==
  {TextPart(t_a), TextPart(t_b), TextPart(t_c), TextPart(t_tags_only),
   TextPart(t_d_e), NonDict}

ItemLists == UNION {[1..n -> DataItems] : n \in 0..MaxItems}

\* n text items with n different texts
LongItems(n) == [k \in 1..n |-> TextPart(<<Alphabet[k]>>)]

FirstParts ==
  {TextPart(s_hello), TextPart(t_blank), OtherPart, NonDict, DataPart(<<TextPart(t_a)>>)}

MessageTexts == {None, t_blank, t_tagged}

ExtractParts ==
  {NoParts, [t |-> "str", items |-> <<NonDict>>], ListParts(<<>>)}
  \cup {ListParts(<<p0>>) : p0 \in FirstParts}
  \cup {ListParts(<<p0, p1>>) : p0 \in FirstParts, p1 \in {TextPart(t_a), NonDict}}
  \cup {ListParts(<<p0, DataPart(items)>>) : p0 \in FirstParts, items \in ItemLists}
  \cup {ListParts(<<OtherPart, DataPart(LongItems(n))>>) :
          n \in (InlineHistMax - 1)..(InlineHistMax + MaxOver)}

ExtractInputs ==
  {NoParams, Params(NoMessage, NoMetadata)}
  \cup {Params(Message(parts, mt), NoMetadata) :
          parts \in ExtractParts, mt \in MessageTexts}

InitExtract ==
  /\ eparams \in ExtractInputs
  /\ eout = NotExtracted
  /\ IdleIntent
  /\ IdleSession
  /\ IdleMain
  /\ IdleAuxBut("extract")

\* invoke's call of the primary extractor on the params of a request
ExtractMaster ==
  /\ ~eout.ran
  /\ \E r \in {extract_text_and_data_master(eparams)} :
       eout' = [text |-> r.text, exc |-> r.exc, hist |-> r.hist, ran |-> TRUE]
  /\ UNCHANGED eparams
  /\ UNCHANGED notExtract

NextExtract == ExtractMaster
SpecExtract == InitExtract /\ [][NextExtract]_vars

\* ------------------------------------------------ the cache of cache.py alone
c_k1 == <<"k", "1">>
c_k2 == <<"k", "2">>

\* JSON values of every kind, the falsy ones among them, and a payload
CacheValues ==
  {JNull, JNum(0), JStr(<<>>), JStr(<<"a", "\"", "\\", "b">>),
   JArr(<<JNum(1), JNull, JBool(FALSE), JStr(<<"n">>)>>),
   JObj(<< <<c_k1, JArr(<<JBool(TRUE), JObj(<<>>), JArr(<<>>)>>)>>,
           <<c_k2, JNum(0 - 42)>> >>),
   JList(Headlines)}

\* the ttl of a set, in ticks of the clock; NoTtl stands for a set without ttl
NoTtl == 0
CacheTtl == 2

\* the sets of the specification: every value under the first key with a
\* ttl, one without ttl, and one under the second key
CacheSets ==
  {[val |-> v, key |-> c_k1, ex |-> CacheTtl] : v \in CacheValues}
  \cup {[val |-> JStr(<<>>), key |-> c_k1, ex |-> NoTtl],
        [val |-> JNum(7), key |-> c_k2, ex |-> CacheTtl]}

InitCache ==
  /\ world \in {Stores(TRUE), Stores(FALSE)}
  /\ req = NoRequest
  /\ resp = NoResponse
  /\ did = NoTrace
  /\ nreq = 0
  /\ nticks = 0
  /\ csets = EmptyMap
  /\ cout = NoGet
  /\ nops = 0
  /\ IdleIntent
  /\ IdleSession
  /\ IdleAuxBut("cache")

\* set_json(key, value, ex); csets keeps what was set under each key while the
\* backing store did not answer
CacheSet ==
  \E s \in CacheSets :
    /\ nops < MaxOps
    /\ nops' = nops + 1
    /\ world' = set_json(world, s.key, s.val, s.ex)
    /\ csets' = IF RedisAnswers(world) THEN csets
                ELSE Put(csets, s.key, [val |-> s.val, ex |-> s.ex, at |-> world.now])
    /\ cout' = NoGet
    /\ UNCHANGED <<req, resp, did, nreq, nticks>>
    /\ UNCHANGED notCache

\* get_json(key)
CacheGet ==
  \E key \in {c_k1, c_k2} :
    /\ nops < MaxOps
    /\ nops' = nops + 1
    /\ \E r \in {get_json(world, key)} :
         /\ world' = r.st
         /\ cout' = [val |-> r.val, key |-> key, at |-> world.now,
                     avail |-> RedisAnswers(world), done |-> TRUE]
    /\ UNCHANGED csets
    /\ UNCHANGED <<req, resp, did, nreq, nticks>>
    /\ UNCHANGED notCache

\* time.time() advances
CacheTick ==
  /\ world.now < MaxTime
  /\ world' = [world EXCEPT !.now = @ + 1]
  /\ UNCHANGED <<req, resp, did, nreq, nticks>>
  /\ UNCHANGED cacheVars
  /\ UNCHANGED notCache

NextCache == CacheSet \/ CacheGet \/ CacheTick \/ RedisDown \/ RedisUp
SpecCache == InitCache /\ [][NextCache]_vars

\* ------------------------------ the cache across outages of the backing store
\* Sets and gets of one key, and one set of a second key, while the Redis
\* server goes and comes back and time passes.  osets is every set made,
\* oldest first, with the time of the set and whether the server took it.
OutageValues == {JNum(1), JNum(2)}

OutageSets ==
  {[val |-> v, key |-> c_k1, ex |-> ex] : v \in OutageValues, ex \in {CacheTtl, NoTtl}}
  \cup {[val |-> JNum(7), key |-> c_k2, ex |-> CacheTtl]}

InitOutage ==
  /\ world \in {Stores(TRUE), Stores(FALSE)}
  /\ req = NoRequest
  /\ resp = NoResponse
  /\ did = NoTrace
  /\ nreq = 0
  /\ nticks = 0
  /\ osets = <<>>
  /\ oget = NoOutageGet
  /\ oops = 0
  /\ IdleIntent
  /\ IdleSession
  /\ IdleAuxBut("outage")

\* set_json(key, value, ex)
OutageSet ==
  \E s \in OutageSets :
    /\ oops < MaxOps
    /\ oops' = oops + 1
    /\ world' = set_json(world, s.key, s.val, s.ex)
    /\ osets' = Append(osets, [val |-> s.val, key |-> s.key, ex |-> s.ex,
                               at |-> world.now, avail |-> RedisAnswers(world)])
    /\ UNCHANGED oget
    /\ UNCHANGED <<req, resp, did, nreq, nticks>>
    /\ UNCHANGED notOutage

\* get_json(key); seen is the number of sets made before it
OutageGet ==
  \E key \in {c_k1, c_k2} :
    /\ oops < MaxOps
    /\ oops' = oops + 1
    /\ \E r \in {get_json(world, key)} :
         /\ world' = r.st
         /\ oget' = [val |-> r.val, key |-> key, at |-> world.now,
                     avail |-> RedisAnswers(world), done |-> TRUE,
                     seen |-> Len(osets)]
    /\ UNCHANGED osets
    /\ UNCHANGED <<req, resp, did, nreq, nticks>>
    /\ UNCHANGED notOutage

NextOutage == OutageSet \/ OutageGet \/ CacheTick \/ RedisDown \/ RedisUp
SpecOutage == InitOutage /\ [][NextOutage]_vars

\* ------------------------------- concurrent callers of aliases.get_aliases
\* invoke is a plain function, so the requests of the service are handled on
\* the threads of a pool.  Each caller runs get_aliases statement by
\* statement; _LOCK is held by at most one of them.
Callers == 1..MaxCallers
NoHolder == 0

\* a caller: its position, the number of rebuilds that had ended when it
\* first looked for the table, whether it issued a rebuild, and its table
Caller(pc, saw, built, aliases) ==
  [aliases |-> aliases, pc |-> pc, saw |-> saw, built |-> built]

InitAlias ==
  /\ world \in {Stores(TRUE), Stores(FALSE)}
  /\ req = NoRequest
  /\ resp = NoResponse
  /\ did = NoTrace
  /\ nreq = 0
  /\ nticks = 0
  /\ acall = [c \in Callers |-> Caller("start", 0, FALSE, <<>>)]
  /\ alock = NoHolder
  /\ aflight = {}
  /\ aended = 0
  /\ IdleIntent
  /\ IdleSession
  /\ IdleAuxBut("alias")

IsTable(j) == j.t = "dict" /\ Truthy(j)

AliasRest == <<req, resp, did, nreq, nticks>>

\* cached = get_json(_CACHE_KEY), outside the lock
FirstLook(c) ==
  /\ acall[c].pc = "start"
  /\ \E g \in {get_json(world, CACHE_KEY)} :
       /\ world' = g.st
       /\ acall' = [acall EXCEPT ![c] =
                      IF IsTable(g.val) THEN Caller("done", aended, FALSE, g.val.v)
                      ELSE Caller("wait", aended, FALSE, <<>>)]
  /\ UNCHANGED <<alock, aflight, aended>>
  /\ UNCHANGED AliasRest
  /\ UNCHANGED notAlias

\* with _LOCK: entered by one caller at a time
Acquire(c) ==
  /\ acall[c].pc = "wait"
  /\ alock = NoHolder
  /\ alock' = c
  /\ acall' = [acall EXCEPT ![c].pc = "locked"]
  /\ UNCHANGED <<world, aflight, aended>>
  /\ UNCHANGED AliasRest
  /\ UNCHANGED notAlias

\* cached = get_json(_CACHE_KEY), under the lock
SecondLook(c) ==
  /\ acall[c].pc = "locked"
  /\ \E g \in {get_json(world, CACHE_KEY)} :
       /\ world' = g.st
       /\ acall' = [acall EXCEPT ![c] =
                      IF IsTable(g.val) THEN Caller("release", @.saw, FALSE, g.val.v)
                      ELSE Caller("fetch", @.saw, FALSE, <<>>)]
  /\ UNCHANGED <<alock, aflight, aended>>
  /\ UNCHANGED AliasRest
  /\ UNCHANGED notAlias

\* _fetch_aliases is called: a rebuild is in progress
FetchBegins(c) ==
  /\ acall[c].pc = "fetch"
  /\ aflight' = aflight \cup {c}
  /\ acall' = [acall EXCEPT ![c] = Caller("fetching", @.saw, TRUE, <<>>)]
  /\ UNCHANGED <<world, alock, aended>>
  /\ UNCHANGED AliasRest
  /\ UNCHANGED notAlias

\* _fetch_aliases returns what the two listings gave
FetchEnds(c) ==
  /\ acall[c].pc = "fetching"
  /\ \E outcome \in AliasOutcomes :
       acall' = [acall EXCEPT ![c] =
                   Caller("store", @.saw, TRUE,
                          fetch_aliases([NominalEnv EXCEPT !.alias = outcome]))]
  /\ aflight' = aflight \ {c}
  /\ aended' = aended + 1
  /\ UNCHANGED <<world, alock>>
  /\ UNCHANGED AliasRest
  /\ UNCHANGED notAlias

\* if aliases: set_json(_CACHE_KEY, aliases, ex=_DEFAULT_TTL)
StoreTable(c) ==
  /\ acall[c].pc = "store"
  /\ world' = IF acall[c].aliases # <<>>
                THEN set_json(world, CACHE_KEY, JDict(acall[c].aliases), ALIAS_TTL)
                ELSE world
  /\ acall' = [acall EXCEPT ![c].pc = "release"]
  /\ UNCHANGED <<alock, aflight, aended>>
  /\ UNCHANGED AliasRest
  /\ UNCHANGED notAlias

\* the with block is left and the table returned
Release(c) ==
  /\ acall[c].pc = "release"
  /\ alock' = NoHolder
  /\ acall' = [acall EXCEPT ![c].pc = "done"]
  /\ UNCHANGED <<world, aflight, aended>>
  /\ UNCHANGED AliasRest
  /\ UNCHANGED notAlias

NextAlias ==
  \/ \E c \in Callers : FirstLook(c)
  \/ \E c \in Callers : Acquire(c)
  \/ \E c \in Callers : SecondLook(c)
  \/ \E c \in Callers : FetchBegins(c)
  \/ \E c \in Callers : FetchEnds(c)
  \/ \E c \in Callers : StoreTable(c)
  \/ \E c \in Callers : Release(c)
  \/ RedisDown
  \/ RedisUp

SpecAlias == InitAlias /\ [][NextAlias]_vars

\* --------------------------------------------- aliases.resolve_coin_id alone
\* tokens that are an alias of the table, that differ from one in letter
\* case, surrounding whitespace or other non-alphanumeric characters, that
\* are unknown, empty or absent
ResolveTokens ==
  {None, <<>>, <<" ", " ">>, <<"!", "?">>,
   c_btc, <<"B", "T", "C">>, <<" ", "B", "t", "c", "\t">>, <<"b", ".", "t", "-", "c">>,
   c_bitcoin, n_Bitcoin, <<"$", "B", "I", "T", "C", "O", "I", "N", "!">>,
   c_doge, <<"x", "y", "z">>,
   n_BatCat, <<" ", "b", "a", "t", " ", "c", "a", "t">>, c_batcat,
   <<"B", "a", "t", "-", "C", "a", "t">>}

\* the cache before the call: empty, or holding the table of an earlier fetch
WithTable(st) ==
  set_json(st, CACHE_KEY, JDict(fetch_aliases(NominalEnv)), ALIAS_TTL)

ResolveStores ==
  {Stores(TRUE), Stores(FALSE), WithTable(Stores(TRUE)), WithTable(Stores(FALSE)),
   [Stores(TRUE) EXCEPT !.up = FALSE], [WithTable(Stores(TRUE)) EXCEPT !.up = FALSE]}

InitResolve ==
  /\ world \in ResolveStores
  /\ req = NoRequest
  /\ resp = NoResponse
  /\ did = NoTrace
  /\ nreq = 0
  /\ nticks = 0
  /\ rtoken \in ResolveTokens
  /\ renv \in {[NominalEnv EXCEPT !.alias = a] : a \in AliasOutcomes}
  /\ rout = NotResolved
  /\ IdleIntent
  /\ IdleSession
  /\ IdleAuxBut("resolve")

\* resolve_coin_id(maybe); table is the alias table the call worked on
Resolve ==
  /\ ~rout.done
  /\ \E r \in {resolve_coin_id(world, renv, rtoken)},
        g \in {get_aliases(world, renv)} :
       /\ world' = r.st
       /\ rout' = [coin |-> r.coin, done |-> TRUE, table |-> g.aliases]
  /\ UNCHANGED <<rtoken, renv>>
  /\ UNCHANGED <<req, resp, did, nreq, nticks>>
  /\ UNCHANGED notResolve

NextResolve == Resolve
SpecResolve == InitResolve /\ [][NextResolve]_vars

\* ------------------- the history of a request: merge and model context alone
\* The stored log of session s_hist holds the turns hstored; the request
\* carries the inline history hinline.  The inline history of the extractor
\* has at most InlineHistMax items; the stored log has no limit of its own.
s_hist == <<"h", "1">>
t_now == <<"n", "o", "w">>

InlineItem(i) == <<"i">> \o NatText(i)
InlineItems(n) == [i \in 1..n |-> InlineItem(i)]

\* the turn of an earlier request: its text and the content returned for it
StoredTurn(j) ==
  [user |-> <<"s">> \o NatText(j),
   assistant |-> CASE j % 3 = 0 -> EmptyContent
                   [] j % 3 = 1 -> Content("composed")
                   [] OTHER -> Content("apology")]
StoredTurns(n) == [j \in 1..n |-> StoredTurn(j)]

InlineLens == {0, 1} \cup ((InlineHistMax - MaxOver)..InlineHistMax)
StoredLens ==
  (0..MaxOver)
    \cup ((HistoryMax - InlineHistMax - 1)..(HistoryMax - InlineHistMax + MaxOver))
    \cup ((HistoryMax - 1)..(HistoryMax + MaxOver))

\* the store after the turns were appended, oldest first
RECURSIVE WithTurns(_, _, _)
WithTurns(st, session_id, turns) ==
  IF turns = <<>> THEN st
  ELSE WithTurns(SessionStore_append(st, session_id, Head(turns).user,
                                     Head(turns).assistant),
                 session_id, Tail(turns))

InitHist ==
  /\ hinline \in {InlineItems(n) : n \in InlineLens}
  /\ hstored \in {StoredTurns(n) : n \in StoredLens}
  /\ world = WithTurns(Stores(TRUE), s_hist, hstored)
  /\ req = NoRequest
  /\ resp = NoResponse
  /\ did = NoTrace
  /\ nreq = 0
  /\ nticks = 0
  /\ hout = NotMerged
  /\ IdleIntent
  /\ IdleSession
  /\ IdleAuxBut("hist")

\* _handle_invoke: stored_history, merged_history
MergeHistory ==
  /\ hout.stage = "start"
  /\ hout' = [history |-> MergedHistory(world, s_hist, hinline),
              messages |-> <<>>, stage |-> "merged"]
  /\ UNCHANGED <<hinline, hstored>>
  /\ UNCHANGED notHist

\* compose_response: messages = _mk_messages(..., history, facts)
ComposeMessages ==
  /\ hout.stage = "merged"
  /\ hout' = [history |-> hout.history,
              messages |-> mk_messages(t_now, hout.history, NoFacts),
              stage |-> "sent"]
  /\ UNCHANGED <<hinline, hstored>>
  /\ UNCHANGED notHist

NextHist == MergeHistory \/ ComposeMessages
SpecHist == InitHist /\ [][NextHist]_vars

\* ------------------------- concurrent requests on the in-process map of cache.py
\* The Redis client is absent, so get_json and set_json work on _mem.  Each
\* thread runs one get_json or one set_json of the same key; _mem_get runs
\* statement by statement, and another thread can run between two of them.
Threads == 1..MaxThreads

Thread(op, val, pc, exp, raw, out) ==
  [raw |-> raw, val |-> val, exp |-> exp, pc |-> pc, op |-> op, out |-> out]

MemOps ==
  {Thread("get", JNull, "start", 0, dumps(JNull), JNull)}
  \cup {Thread("set", v, "start", 0, dumps(JNull), JNull) : v \in {JNum(0), JStr(c_k2)}}

\* the map before the requests: empty, or with an entry that expires after
\* the first tick of the clock
WithEntry(st) == set_json(st, c_k1, JNum(7), 1)

InitMem ==
  /\ \E entry \in BOOLEAN :
       /\ world = IF entry THEN WithEntry(Stores(FALSE)) ELSE Stores(FALSE)
       /\ mstored = IF entry THEN {JNum(7)} ELSE {}
  /\ req = NoRequest
  /\ resp = NoResponse
  /\ did = NoTrace
  /\ nreq = 0
  /\ nticks = 0
  /\ mthr \in [Threads -> MemOps]
  /\ IdleIntent
  /\ IdleSession
  /\ IdleAuxBut("mem")

MemRest == <<req, resp, did, nreq, nticks>>

\* set_json: _mem[key] = (time.time() + ex, raw), one store into the map
MemSet(t) ==
  /\ mthr[t].pc = "start"
  /\ mthr[t].op = "set"
  /\ world' = set_json(world, c_k1, mthr[t].val, CacheTtl)
  /\ mstored' = mstored \cup {mthr[t].val}
  /\ mthr' = [mthr EXCEPT ![t].pc = "done"]
  /\ UNCHANGED MemRest
  /\ UNCHANGED notMem

\* _mem_get: if key not in _mem: return None
MemContains(t) ==
  /\ mthr[t].pc = "start"
  /\ mthr[t].op = "get"
  /\ mthr' = [mthr EXCEPT ![t].pc = IF c_k1 \in DOMAIN world.mem THEN "read" ELSE "done"]
  /\ UNCHANGED <<world, mstored>>
  /\ UNCHANGED MemRest
  /\ UNCHANGED notMem

\* _mem_get: exp, val = _mem[key]; KeyError when the key has gone
MemRead(t) ==
  /\ mthr[t].pc = "read"
  /\ mthr' = [mthr EXCEPT ![t] =
                IF c_k1 \in DOMAIN world.mem
                  THEN Thread("get", @.val, "test", world.mem[c_k1].exp,
                              world.mem[c_k1].raw, JNull)
                  ELSE Thread("get", @.val, "raised", 0, @.raw, JNull)]
  /\ UNCHANGED <<world, mstored>>
  /\ UNCHANGED MemRest
  /\ UNCHANGED notMem

\* _mem_get: the expired entry is popped and None returned, else val; then
\* get_json: json.loads(raw) if raw else None
MemExpire(t) ==
  /\ mthr[t].pc = "test"
  /\ IF mthr[t].exp # 0 /\ mthr[t].exp < world.now
       THEN /\ world' = [world EXCEPT !.mem = Remove(@, c_k1)]
            /\ mthr' = [mthr EXCEPT ![t].pc = "done"]
       ELSE /\ world' = world
            /\ mthr' = [mthr EXCEPT ![t].pc = "done",
                                    ![t].out = IF RawTruthy(mthr[t].raw)
                                                 THEN loads(mthr[t].raw) ELSE JNull]
  /\ UNCHANGED mstored
  /\ UNCHANGED MemRest
  /\ UNCHANGED notMem

NextMem ==
  \/ \E t \in Threads : MemSet(t)
  \/ \E t \in Threads : MemContains(t)
  \/ \E t \in Threads : MemRead(t)
  \/ \E t \in Threads : MemExpire(t)
  \/ CacheTick

SpecMem == InitMem /\ [][NextMem]_vars

\* ----------------------------------- the session log of session_store.py alone
\* Requests append turns to the logs of two sessions and read them, while the
\* Redis server comes and goes and time passes.  lturns holds, for each
\* session, the turns of the appends the server took, oldest first.
s_other == <<"h", "2">>
LogSessions == {s_hist, s_other}

\* texts with the characters json.dumps escapes, and the contents returned
LogTurns ==
  {[user |-> <<"h", "i">>, assistant |-> Content("composed")],
   [user |-> <<"\"", "a", "\\", "n">>, assistant |-> Content("apology")],
   [user |-> <<"{", "}", ",", " ", ":">>, assistant |-> EmptyContent]}

InitLog ==
  /\ world \in {Stores(TRUE), Stores(FALSE)}
  /\ req = NoRequest
  /\ resp = NoResponse
  /\ did = NoTrace
  /\ nreq = 0
  /\ nticks = 0
  /\ lturns = [s \in LogSessions |-> <<>>]
  /\ lread = NoRead
  /\ lops = 0
  /\ IdleIntent
  /\ IdleSession
  /\ IdleAuxBut("log")

\* _append_history_safe(session_id, user_text, assistant_text)
LogAppend ==
  /\ lops < MaxOps
  /\ \E s \in LogSessions, turn \in LogTurns :
       /\ world' = SessionStore_append(world, s, turn.user, turn.assistant)
       /\ lturns' = IF RedisAnswers(world)
                      THEN [lturns EXCEPT ![s] = Append(@, turn)] ELSE lturns
  /\ lops' = lops + 1
  /\ UNCHANGED lread
  /\ UNCHANGED <<req, resp, did, nreq, nticks>>
  /\ UNCHANGED notLog

\* _get_history_safe(session_id)
LogRead ==
  /\ \E s \in LogSessions :
       lread' = [turns |-> SessionStore_get_history(world, s), sid |-> s,
                 done |-> TRUE]
  /\ UNCHANGED <<world, lturns, lops>>
  /\ UNCHANGED <<req, resp, did, nreq, nticks>>
  /\ UNCHANGED notLog

NextLog == LogAppend \/ LogRead \/ CacheTick \/ RedisDown \/ RedisUp
SpecLog == InitLog /\ [][NextLog]_vars

\* ---- the requests of the specification SpecPrice: price questions, twice
\* and more, under every outcome of the price fetch
t_price_dogecoin == <<"p", "r", "i", "c", "e", " ", "o", "f", " ">> \o c_dogecoin

PriceTexts == {t_price_bitcoin, t_price_btc, t_price_dogecoin, t_price_xyz}

PriceEnvs == {[NominalEnv EXCEPT !.provider = p] : p \in ProviderOutcomes}

InvokePrice ==
  \E t \in PriceTexts, e \in PriceEnvs :
    Handle(Body("object", "r1", "message/send", SendText(t)), <<>>, e, MaxPrice)

NextPrice == InvokePrice \/ Deliver \/ RedisDown \/ RedisUp \/ Tick
SpecPrice == InitMain /\ [][NextPrice]_vars

\* ------------------------------------------- texts of the intent functions

Vocab == {<<"N", "e", "w", "s">>, s_price \o <<" ">> \o s_of \o <<" ">> \o s_btc,
          s_top, s_worst, s_trending, s_coins, s_info,
          <<"3">>, <<"0">>, <<"9", "9">>, <<"2", "0", "0">>, s_hello}

RECURSIVE Join(_)
Join(ws) == IF Len(ws) = 0 THEN <<>>
            ELSE IF Len(ws) = 1 THEN ws[1]
            ELSE ws[1] \o <<" ">> \o Join(Tail(ws))

IntentTexts == UNION {{Join(ws) : ws \in [1..n -> Vocab]} : n \in 1..MaxWords}

InitIntent ==
  /\ itext \in IntentTexts
  /\ ilabel = "none"
  /\ icount = 0
  /\ icoin = None
  /\ ipc = "start"
  /\ IdleSession
  /\ IdleMain
  /\ IdleAux

\* _handle_invoke's use of the intent functions on one text
Classify ==
  /\ ipc = "start"
  /\ ilabel' = classify(itext)
  /\ icount' = extract_count(itext, CountDefault)
  /\ icoin' = extract_coin_from_price(itext)
  /\ ipc' = "done"
  /\ UNCHANGED itext
  /\ UNCHANGED notIntent

NextIntent == Classify
SpecIntent == InitIntent /\ [][NextIntent]_vars

\* ------------------------------------ requests of the session-key function
\* The identity fields a request can populate.  role is what the field
\* identifies, src where it travels, key its name there.
Slots ==
  << [key |-> k_user_id, role |-> "user", src |-> "explicit"],
     [key |-> k_org_id,  role |-> "org", src |-> "explicit"],
     [key |-> <<"c", "h">>, role |-> "chan", src |-> "explicit"],
     [key |-> k_user_id, role |-> "user", src |-> "meta"],
     [key |-> <<"U", "s", "e", "r", "I", "d">>, role |-> "user", src |-> "meta"],
     [key |-> k_org_id,  role |-> "org", src |-> "meta"],
     [key |-> h_x_user_id, role |-> "user", src |-> "hdr"],
     [key |-> <<"X", "-", "O", "r", "g", "-", "I", "d">>,  role |-> "org", src |-> "hdr"],
     [key |-> h_x_workspace_id,  role |-> "org", src |-> "hdr"],
     [key |-> h_x_session_id, role |-> "sess", src |-> "hdr"] >>

NSlots == Len(Slots)
\* the kinds of value a populated slot can carry
ValueKinds == <<"empty", "plain", "odd">>
NVals == Len(ValueKinds)

LongId == [k \in 1..(NormMaxLen + 2) |-> IF k = NormMaxLen THEN " " ELSE "X"]

\* the value a slot carries for a value index: 1 is empty (for an explicit
\* field: blank), 2 a plain identifier, 3 one that normalisation changes
SlotValue(i, v) ==
  LET sl == Slots[i]
      plain == IF sl.role = "user" THEN s_bob
               ELSE IF sl.role = "org" THEN s_acme
               ELSE IF sl.role = "sess" THEN <<"s", "1">>
               ELSE <<"c", "7">>
  IN IF sl.src = "explicit"
       THEN (IF v = 1 THEN <<" ">> ELSE IF v = 2 THEN plain
             ELSE <<" ", "A", "l", " ", "B", " ">>)
     ELSE IF sl.src = "meta"
       THEN (IF v = 1 THEN [s |-> <<>>, t |-> "str"]
             ELSE IF v = 2 THEN [s |-> plain, t |-> "str"]
             ELSE IF i = 4 THEN [s |-> <<>>, t |-> "other"]
             ELSE IF i = 5 THEN [s |-> <<"4", "2">>, t |-> "int"]
             ELSE [s |-> <<"A", "l", " ", "B", "\t">>, t |-> "str"])
     ELSE (IF v = 1 THEN <<>> ELSE IF v = 2 THEN plain
           ELSE IF i = 7 THEN LongId
           ELSE <<"A", "l", " ", "B">>)

\* an assignment gives a value index to the populated slots
Assignments ==
  UNION {[S -> 1..NVals] :
           S \in {S \in SUBSET (1..NSlots) : Cardinality(S) <= MaxFields}}

Populated(a, src) ==
  SelectSeq([i \in 1..NSlots |-> i],
            LAMBDA i : i \in DOMAIN a /\ Slots[i].src = src)

Pairs(a, src) ==
  LET ps == Populated(a, src)
  IN [k \in 1..Len(ps) |-> <<Slots[ps[k]].key, SlotValue(ps[k], a[ps[k]])>>]

\* the InvokeParams and the headers of the request an assignment describes
ReqParams(a) ==
  [metadata |-> IF Pairs(a, "meta") = <<>> THEN None ELSE Pairs(a, "meta"),
   user_id |-> IF 1 \in DOMAIN a THEN SlotValue(1, a[1]) ELSE None,
   org_id |-> IF 2 \in DOMAIN a THEN SlotValue(2, a[2]) ELSE None,
   channel_id |-> IF 3 \in DOMAIN a THEN SlotValue(3, a[3]) ELSE None]

ReqHeaders(a) == Pairs(a, "hdr")

InitSession ==
  /\ sa1 \in Assignments
  /\ sa2 = NoAssign
  /\ sid1 = None
  /\ sid2 = None
  /\ spc = "start"
  /\ IdleIntent
  /\ IdleMain
  /\ IdleAux

\* the first request of a caller is given its session key
First ==
  /\ spc = "start"
  /\ sid1' = get_session_id(ReqHeaders(sa1), ReqParams(sa1))
  /\ spc' = "first"
  /\ UNCHANGED <<sa1, sa2, sid2>>
  /\ UNCHANGED notSession

\* a second request that populates one more field than the first
SecondAdds ==
  /\ spc = "first"
  /\ Cardinality(DOMAIN sa1) < MaxFields
  /\ \E i \in (1..NSlots) \ DOMAIN sa1, v \in 1..NVals :
       LET a == [x \in DOMAIN sa1 \cup {i} |-> IF x = i THEN v ELSE sa1[x]]
       IN /\ sa2' = a
          /\ sid2' = get_session_id(ReqHeaders(a), ReqParams(a))
  /\ spc' = "second"
  /\ UNCHANGED <<sa1, sid1>>
  /\ UNCHANGED notSession

\* a second request that carries one identity through another source
SecondMoves ==
  /\ spc = "first"
  /\ \E i \in DOMAIN sa1, j \in (1..NSlots) \ DOMAIN sa1, v \in 1..NVals :
       /\ Slots[i].role = Slots[j].role
       /\ LET a == [x \in (DOMAIN sa1 \ {i}) \cup {j} |->
                      IF x = j THEN v ELSE sa1[x]]
          IN /\ sa2' = a
             /\ sid2' = get_session_id(ReqHeaders(a), ReqParams(a))
  /\ spc' = "second"
  /\ UNCHANGED <<sa1, sid1>>
  /\ UNCHANGED notSession

NextSession == First \/ SecondAdds \/ SecondMoves
SpecSession == InitSession /\ [][NextSession]_vars

\* ------------------------------------- requests of two unrelated callers
\* The second request is any request that populates at most one identity
\* field, whatever the first request was.
SecondStranger ==
  /\ spc = "first"
  /\ \E a \in {b \in Assignments : Cardinality(DOMAIN b) <= 1} :
       /\ sa2' = a
       /\ sid2' = get_session_id(ReqHeaders(a), ReqParams(a))
  /\ spc' = "second"
  /\ UNCHANGED <<sa1, sid1>>
  /\ UNCHANGED notSession

NextStrangers == First \/ SecondStranger
SpecStrangers == InitSession /\ [][NextStrangers]_vars

\* ======================================================================
\* Claims about the intent functions (specification SpecIntent)
\* ======================================================================
HasNewsKw(t) == Contains(Lower(t), s_news) \/ Contains(Lower(t), s_headline)
HasPricePhrase(t) == PRICE_RE(Lower(t)).found
HasTopPhrase(t) == TOP_RE(Lower(t)).found
HasWorstPhrase(t) == WORST_RE(Lower(t)).found
HasTrendPhrase(t) == TREND_RE(Lower(t)).found
HasDetailKw(t) == Contains(Lower(t), s_detail) \/ Contains(Lower(t), s_info)

\* C8: classify gives every text exactly one label of the closed set, the
\* label of the first check that matches in the order news/headline keyword,
\* price pattern, top pattern, worst pattern, trending pattern, detail/info
\* keyword, else unknown; so news beats a price phrase and price beats top.
C8_FirstMatchWins ==
  ipc = "done" =>
    /\ ilabel \in Labels
    /\ HasNewsKw(itext) => ilabel = "news"
    /\ (~HasNewsKw(itext) /\ HasPricePhrase(itext)) => ilabel = "price"
    /\ (~HasNewsKw(itext) /\ ~HasPricePhrase(itext) /\ HasTopPhrase(itext))
         => ilabel = "top"
    /\ (~HasNewsKw(itext) /\ ~HasPricePhrase(itext) /\ ~HasTopPhrase(itext)
          /\ HasWorstPhrase(itext)) => ilabel = "worst"
    /\ (~HasNewsKw(itext) /\ ~HasPricePhrase(itext) /\ ~HasTopPhrase(itext)
          /\ ~HasWorstPhrase(itext) /\ HasTrendPhrase(itext))
         => ilabel = "trending"
    /\ (~HasNewsKw(itext) /\ ~HasPricePhrase(itext) /\ ~HasTopPhrase(itext)
          /\ ~HasWorstPhrase(itext) /\ ~HasTrendPhrase(itext)
          /\ HasDetailKw(itext)) => ilabel = "detail"
    /\ (~HasNewsKw(itext) /\ ~HasPricePhrase(itext) /\ ~HasTopPhrase(itext)
          /\ ~HasWorstPhrase(itext) /\ ~HasTrendPhrase(itext)
          /\ ~HasDetailKw(itext)) => ilabel = "unknown"

\* a text with both the news keyword and a price phrase has been classified
C8_Witness ==
  /\ ipc = "done"
  /\ HasNewsKw(itext) /\ HasPricePhrase(itext)
  /\ ilabel = "news"

\* the phrase words of the three count patterns
PhraseWords == TopWords \cup WorstWords \cup TrendWords

\* positions right after a phrase word and the whitespace that follows it
PhraseEnds(t) ==
  {WsRunEnd(t, i + Len(w)) :
     <<i, w>> \in {p \in (1..Len(t)) \X PhraseWords :
                     /\ SubAt(Lower(t), p[1], p[2])
                     /\ p[1] + Len(p[2]) <= Len(t)
                     /\ IsWs(t[p[1] + Len(p[2])])}}

RECURSIVE NumVal(_, _, _)
NumVal(t, a, b) == IF a > b THEN 0 ELSE 10 * NumVal(t, a, b - 1) + DigitVal(t[b])

\* the numbers that follow a phrase word and are followed by coins/crypto
PhraseNumbers(t) ==
  {NumVal(t, k, DigitRunEnd(t, k) - 1) :
     k \in {k \in PhraseEnds(t) :
              /\ DigitRunEnd(t, k) > k
              /\ \E w \in CoinWords :
                   SubAt(Lower(t), WsRunEnd(t, DigitRunEnd(t, k)), w)}}

\* the phrase occurrences followed by coins/crypto without a number
BarePhrases(t) ==
  {k \in PhraseEnds(t) : \E w \in CoinWords : SubAt(Lower(t), k, w)}

\* C9: the extracted count is within [1,50]; a text whose top/worst/trending
\* phrase carries a number yields that number clamped into [1,50] ("top 200
\* coins" yields 50); a phrase without a number yields the default 10.
C9_CountClamped ==
  ipc = "done" =>
    /\ icount \in CountLo..CountHi
    /\ (Cardinality(PhraseEnds(itext)) = 1 /\ PhraseNumbers(itext) # {})
         => \E n \in PhraseNumbers(itext) : icount = Clamp(n)
    /\ (Cardinality(PhraseEnds(itext)) = 1 /\ BarePhrases(itext) # {})
         => icount = CountDefault

\* ======================================================================
\* Claims about the session key (specification SpecSession)
\* ======================================================================
\* trim, lowercase, space-to-underscore, truncate to 128 (None is empty)
ClaimNorm(s) ==
  LET s0 == IF s = None THEN <<>> ELSE s
      t == Strip(s0)
      r == [k \in 1..Len(t) |-> IF t[k] = " " THEN "_" ELSE LowerChar(t[k])]
  IN IF Len(r) <= 128 THEN r ELSE SubSeq(r, 1, 128)

RECURSIVE FirstNonEmpty(_)
FirstNonEmpty(cs) ==
  IF cs = <<>> THEN <<>>
  ELSE IF Head(cs) # <<>> THEN Head(cs)
  ELSE FirstNonEmpty(Tail(cs))

\* the populated slots of a role and a source, in slot order
RoleSlots(a, role, src) ==
  SelectSeq([i \in 1..NSlots |-> i],
            LAMBDA i : i \in DOMAIN a /\ Slots[i].role = role /\ Slots[i].src = src)

\* the raw string a populated slot holds (a metadata value that is neither a
\* string nor an integer holds none)
SlotString(a, i) ==
  IF Slots[i].src = "meta"
    THEN (IF SlotValue(i, a[i]).t \in {"str", "int"} THEN SlotValue(i, a[i]).s ELSE None)
    ELSE SlotValue(i, a[i])

\* the metadata slots of a role in the fixed key order of the derivation
MetaInKeyOrder(a, role) ==
  LET keys == IF role = "user" THEN UserMetaKeys ELSE OrgMetaKeys
      slotOf(k) == {i \in DOMAIN a : Slots[i].src = "meta"
                                      /\ Lower(Slots[i].key) = Lower(keys[k])}
      present == SelectSeq([k \in 1..Len(keys) |-> k], LAMBDA k : slotOf(k) # {})
  IN [n \in 1..Len(present) |-> CHOOSE i \in slotOf(present[n]) : TRUE]

\* the identity of a role as the claim reads it: the first non-empty value
\* among the explicit field, each metadata key in key order, each header
ClaimedIdentity(a, role) ==
  LET ex == RoleSlots(a, role, "explicit")
      me == MetaInKeyOrder(a, role)
      hd == RoleSlots(a, role, "hdr")
      all == ex \o me \o hd
  IN FirstNonEmpty([n \in 1..Len(all) |-> ClaimNorm(SlotString(a, all[n]))])

\* the identity of a role as amended: metadata contributes the value of its
\* first key that holds a string or an integer, whether empty or not
DerivedIdentity(a, role) ==
  LET ex == RoleSlots(a, role, "explicit")
      me == SelectSeq(MetaInKeyOrder(a, role), LAMBDA i : SlotString(a, i) # None)
      me1 == IF me = <<>> THEN <<>> ELSE <<me[1]>>
      hd == RoleSlots(a, role, "hdr")
      hdv == FirstNonEmpty([n \in 1..Len(hd) |-> SlotString(a, hd[n])])
  IN FirstNonEmpty(
       [n \in 1..Len(ex \o me1) |-> ClaimNorm(SlotString(a, (ex \o me1)[n]))]
       \o <<ClaimNorm(hdv)>>)

\* the key the resolution rule gives for the identities of a request
KeyFor(user, org, sess, chan) ==
  IF org # <<>> /\ user # <<>> THEN org \o <<":">> \o user
  ELSE FirstNonEmpty(<<user, org, sess, chan, s_anonymous>>)

ClaimedKey(a) ==
  KeyFor(ClaimedIdentity(a, "user"), ClaimedIdentity(a, "org"),
         ClaimedIdentity(a, "sess"), ClaimedIdentity(a, "chan"))

DerivedKey(a) ==
  KeyFor(DerivedIdentity(a, "user"), DerivedIdentity(a, "org"),
         DerivedIdentity(a, "sess"), DerivedIdentity(a, "chan"))

\* C6 as stated: user and org are each the first non-empty value among the
\* explicit field, the metadata alternate keys in key order and the identity
\* headers, normalised; both known gives "{org}:{user}", else the first
\* non-empty of user, org, session header, channel id, "anonymous"; the key
\* is never empty.
C6_KeyFromFirstNonEmptySource ==
  /\ spc \in {"first", "second"} => (sid1 = ClaimedKey(sa1) /\ sid1 # <<>>)
  /\ spc = "second" => (sid2 = ClaimedKey(sa2) /\ sid2 # <<>>)

\* C6 amended: as C6, except that metadata contributes the value of the first
\* alternate key (in key order) that holds a string or an integer, even when
\* that value normalises to empty: later metadata keys are then not consulted
\* and the derivation goes on to the identity headers.
C6_KeyFromDerivedIdentity ==
  /\ spc \in {"first", "second"} => (sid1 = DerivedKey(sa1) /\ sid1 # <<>>)
  /\ spc = "second" => (sid2 = DerivedKey(sa2) /\ sid2 # <<>>)

\* a request with an org in metadata and a user in a header got "{org}:{user}"
C6_Witness ==
  /\ spc = "first"
  /\ DOMAIN sa1 = {6, 7}
  /\ sa1[6] = 3 /\ sa1[7] = 3
  /\ sid1 = <<"a", "l", "_", "b", ":">> \o [k \in 1..127 |-> "x"] \o <<"_">>

Added(a, b) == DOMAIN b \ DOMAIN a
Removed(a, b) == DOMAIN a \ DOMAIN b

\* the second request is the first plus one optional field (org id, session
\* header or channel id), or carries the same user through another source
SameCallerVariant(a, b) ==
  /\ DerivedIdentity(a, "user") # <<>>
  /\ DerivedIdentity(b, "user") = DerivedIdentity(a, "user")
  /\ \/ Removed(a, b) = {}
        /\ \E i \in Added(a, b) : Slots[i].role \in {"org", "sess", "chan"}
     \/ \E i \in Removed(a, b), j \in Added(a, b) :
           Slots[i].role = "user" /\ Slots[j].role = "user"

\* C7 as stated: two requests of the same user, one of which also carries an
\* org id, a session header or a channel id, or carries the identity through
\* another source, derive equal session keys.
C7_SameCallerSameKey ==
  (spc = "second" /\ SameCallerVariant(sa1, sa2)) => sid2 = sid1

\* C7 amended: two requests with the same user identity and the same org
\* identity (or both without one) derive equal keys, whether or not a session
\* header or a channel id is present and whichever source carries the
\* identities; a request that also carries an org id derives "{org}:{user}",
\* which differs from the key "{user}" of the request without it.
C7_SameUserAndOrgSameKey ==
  spc = "second" =>
    LET u1 == DerivedIdentity(sa1, "user")
        u2 == DerivedIdentity(sa2, "user")
        o1 == DerivedIdentity(sa1, "org")
        o2 == DerivedIdentity(sa2, "org")
    IN /\ (u1 # <<>> /\ u2 = u1 /\ o2 = o1) => sid2 = sid1
       /\ (u1 # <<>> /\ u2 = u1 /\ o1 = <<>> /\ o2 # <<>>)
            => (sid1 = u1 /\ sid2 = o2 \o <<":">> \o u1 /\ sid2 # sid1)

\* the user moved from a header to metadata while a session header was
\* present, and the key stayed the same
C7_Witness ==
  /\ spc = "second"
  /\ 7 \in Removed(sa1, sa2)
  /\ 5 \in Added(sa1, sa2)
  /\ 10 \in DOMAIN sa1 /\ sa1[10] = 2
  /\ DerivedIdentity(sa1, "user") = s_bob
  /\ sid2 = sid1
  /\ sid1 = s_bob

\* ---------------------------------------- claims on the keys of two callers
\* the kind of identifier the key of a request is derived from
KeyKind(a) ==
  CASE DerivedIdentity(a, "org") # <<>> /\ DerivedIdentity(a, "user") # <<>> -> "pair"
    [] DerivedIdentity(a, "user") # <<>> -> "user"
    [] DerivedIdentity(a, "org") # <<>> -> "org"
    [] DerivedIdentity(a, "sess") # <<>> -> "session"
    [] DerivedIdentity(a, "chan") # <<>> -> "channel"
    [] OTHER -> "anonymous"

OrgAndUser(a) == <<DerivedIdentity(a, "org"), DerivedIdentity(a, "user")>>

\* C22: session keys separate identities: two requests whose normalised
\* (org, user) identities differ never derive the same key, and a key
\* derived from one kind of identifier is never equal to a key derived
\* from another kind.
C22_KeysSeparateIdentities ==
  spc = "second" =>
    /\ OrgAndUser(sa1) # OrgAndUser(sa2) => sid1 # sid2
    /\ KeyKind(sa1) # KeyKind(sa2) => sid1 # sid2

\* the keys follow the derivation in both requests
C22_KeysAsDerived ==
  spc = "second" => (sid1 = DerivedKey(sa1) /\ sid2 = DerivedKey(sa2))

\* ------------------------------------------------- claims on POST /invoke
\* a request has been handled and its response is at hand
Answered == resp # NoResponse

\* the id a request carries: the empty value when the body has none
RequestIdOf(body) ==
  IF body.t = "object" /\ body.id # IdAbsent THEN body.id ELSE ""

\* C1: every handled request, whatever its method and outcome, is answered
\* with an envelope whose id equals the id of the request body, the empty
\* value when the request carries no id.
C1_ResponseIdEqualsRequestId ==
  Answered => (resp.kind = "envelope" /\ resp.id = RequestIdOf(req.body))

\* C2: no request body and no fault of a collaborator lets an exception leave
\* the handler: every handled request is answered with a well-formed
\* envelope, completed or failed.
C2_NoExceptionEscapes ==
  Answered => (resp.kind # "escaped" /\ resp.state \in {"completed", "failed"})

\* a request with method "invoke" whose params carry a non-empty text
IsInvokeWithText(body) ==
  /\ body.t = "object"
  /\ body.method = "invoke"
  /\ body.params.t = "dict"
  /\ body.params.text # None
  /\ body.params.text # <<>>

\* C3: a request with method "invoke" and a non-empty params.text is handed
\* to the intent dispatcher with that text and is not answered with the
\* unknown-method or a failed outcome.
C3_InvokeMethodDispatched ==
  (Answered /\ IsInvokeWithText(req.body))
    => /\ did.dispatched
       /\ did.text = req.body.params.text
       /\ resp.content.kind # "unknown_method"
       /\ resp.state = "completed"

ProviderBranches == {"price", "news", "top", "worst", "trending", "detail"}
DataFetches == {"price", "news", "markets", "trending", "detail"}

\* the request met a provider fetch that raised or returned not-found
ProviderFailed ==
  /\ did.dispatched
  /\ did.intent \in ProviderBranches
  /\ req.env.provider \in {"raise", "none"}
  /\ \E i \in 1..Len(did.fetched) : did.fetched[i] \in DataFetches

\* C4: on every branch that calls the data provider, a fetch that raises or
\* returns not-found still ends in a completed response (here: whenever the
\* language model client itself is available), never in the failed outcome.
C4_ProviderFailureStillCompleted ==
  (Answered /\ ProviderFailed /\ req.env.compose # "client_error")
    => /\ resp.kind = "envelope"
       /\ resp.state = "completed"
       /\ resp.content.kind # "internal_error"

\* the stored log of a session, oldest turn first
SessionLog(sid) ==
  IF RedisLive(world.rlist, SessionKey(sid), world.now)
    THEN [k \in 1..Len(world.rlist[SessionKey(sid)].turns) |->
            TurnOf(world.rlist[SessionKey(sid)].turns[k])]
    ELSE <<>>

\* C5: every request that reaches the dispatcher has, when its response is
\* returned, one turn (its user text, the content returned) appended to the
\* log of its session (here: whenever the Redis store answers).
C5_TurnAppendedOnEveryBranch ==
  (Answered /\ did.dispatched /\ RedisAnswers(world))
    => /\ did.appended = <<[user |-> did.text, assistant |-> resp.content,
                            sid |-> did.sid]>>
       /\ SessionLog(did.sid) # <<>>
       /\ SessionLog(did.sid)[Len(SessionLog(did.sid))]
            = [user |-> did.text, assistant |-> resp.content]

\* the top request fetched a market list of at least the requested count
TopFetchedAtLeastCount ==
  /\ did.dispatched
  /\ did.intent = "top"
  /\ did.fetched = <<"markets">>
  /\ req.env.provider = "ok"
  /\ did.calls # <<>>
  /\ req.env.count >= did.calls[1].facts.count

\* C10: for a top request of count n whose market fetch returns at least n
\* items, the ranked list of the fact sheet has exactly n entries, ranked
\* 1..n in the fetched order.
C10_TopListHasExactlyCount ==
  (Answered /\ TopFetchedAtLeastCount)
    => LET facts == did.calls[1].facts
       IN /\ Len(facts.list) = facts.count
          /\ \A i \in 1..Len(facts.list) :
               /\ facts.list[i].rank = i
               /\ i <= Len(MarketData) /\ facts.list[i].name = MarketData[i].name

\* ------------------------------------- claims on the extraction of the text
\* a message/send request whose params both extractors run on to their end
\* without obtaining a text
NoTextRequest(body) ==
  /\ body.t = "object"
  /\ body.method = "message/send"
  /\ body.params.t # "nondict"
  /\ ~extract_text_and_data_master(body.params).exc
  /\ extract_text_and_data_master(body.params).text = None
  /\ extract_text_and_data_slave(body.params).text = None

\* the step that handles a request
Handled == resp = NoResponse /\ resp' # NoResponse

RECURSIVE NonEmptyCleaned(_)
NonEmptyCleaned(items) ==
  IF items = <<>> THEN <<>>
  ELSE LET h == Head(items)
           c == IF h.t = "dict" /\ h.kind = "text" /\ h.text # None
                  THEN clean_text(h.text) ELSE <<>>
       IN (IF c = <<>> THEN <<>> ELSE <<c>>) \o NonEmptyCleaned(Tail(items))

\* the parts of the message of the params, when they are a list
PartsListOf(params) ==
  IF params.t = "dict" /\ params.message.t = "dict"
       /\ params.message.parts.t = "list"
    THEN params.message.parts.items ELSE <<>>

MessageTextOf(params) ==
  IF params.t = "dict" /\ params.message.t = "dict"
       /\ params.message.text # None
    THEN clean_text(params.message.text) ELSE <<>>

\* the non-empty cleaned texts of the data part at index 1
DataTextsOf(params) ==
  LET parts == PartsListOf(params)
  IN IF Len(parts) > 1 /\ parts[2].t = "dict" /\ parts[2].kind = "data"
       THEN NonEmptyCleaned(parts[2].data) ELSE <<>>

\* the cleaned text of part 0 when it is a text part
PartZeroTextOf(params) ==
  LET parts == PartsListOf(params)
  IN IF Len(parts) > 0 /\ parts[1].t = "dict" /\ parts[1].kind = "text"
          /\ parts[1].text # None
       THEN clean_text(parts[1].text) ELSE <<>>

ExpectedText(params) ==
  LET d == DataTextsOf(params)
  IN IF d # <<>> THEN d[Len(d)]
     ELSE IF PartZeroTextOf(params) # <<>> THEN PartZeroTextOf(params)
     ELSE IF MessageTextOf(params) # <<>> THEN MessageTextOf(params)
     ELSE None

ExpectedHistory(params) ==
  LET d == DataTextsOf(params)
      n == IF Len(d) < InlineHistMax THEN Len(d) ELSE InlineHistMax
  IN [k \in 1..n |-> d[Len(d) - n + k]]

\* data texts a, b, c behind a part 0 that is not a text part
AbcParams ==
  Params(Message(ListParts(<<OtherPart, DataPart(<<TextPart(t_a), TextPart(t_b),
                                                   TextPart(t_c)>>)>>),
                 None), NoMetadata)

\* C12: the primary extractor returns as effective text the last non-empty
\* cleaned data text of the data part at index 1 when there is one, else the
\* cleaned text of part 0 when that is a text part, else the cleaned
\* message text, else the absent value, never the empty string; its inline
\* history is the non-empty cleaned data texts in their order, cut to the
\* last 20.  Data texts a, b, c give the text c and the history a, b, c.
C12_MasterExtractsLastDataText ==
  eout.ran
    => /\ ~eout.exc
       /\ eout.text = ExpectedText(eparams)
       /\ eout.hist = ExpectedHistory(eparams)
       /\ eout.text # <<>>
       /\ Len(eout.hist) <= InlineHistMax
       /\ (eparams = AbcParams => (eout.text = t_c /\ eout.hist = <<t_a, t_b, t_c>>))

\* the extractor ran on more data texts than the history keeps and on data
\* texts behind a text part 0
C12_Witness ==
  /\ eout.ran
  /\ Len(DataTextsOf(eparams)) > InlineHistMax
  /\ eout.text = <<Alphabet[Len(DataTextsOf(eparams))]>>
  /\ eout.hist[1] = <<Alphabet[Len(DataTextsOf(eparams)) - InlineHistMax + 1]>>

\* a message/send request whose message has a text and whose parts are
\* missing or of one of the given kinds
PartsOfKind(body, kinds) ==
  /\ body.t = "object"
  /\ body.method = "message/send"
  /\ body.params.t = "dict"
  /\ body.params.message.t = "dict"
  /\ body.params.message.parts.t \in kinds
  /\ MessageTextOf(body.params) # <<>>

\* the request is dispatched with the cleaned message text and with no
\* inline history: the history is the stored one
FellThroughToMessageText ==
  /\ resp'.kind = "envelope"
  /\ resp'.state = "completed"
  /\ did'.dispatched
  /\ did'.text = MessageTextOf(req'.body.params)
  /\ did'.history = SessionStore_get_history(world, did'.sid)

\* C13: a message/send request whose parts field is missing or is not a list
\* (a mapping, a string, a number) is handled with an empty inline history
\* and with the message text as effective text, and is never answered with
\* a fault or a failed response.
C13_NonListPartsFallThrough ==
  [][(Handled /\ PartsOfKind(req'.body, {"absent", "dict", "str", "num"}))
       => FellThroughToMessageText]_vars

\* the same for parts that are missing or a string
C13_MissingOrStringPartsFallThrough ==
  [][(Handled /\ PartsOfKind(req'.body, {"absent", "str"}))
       => FellThroughToMessageText]_vars

\* ------------------------------------------------------ claims on the cache
\* a get was made while the backing store did not answer, of a key that was
\* set while it did not answer
GotFromFallback ==
  /\ cout.done
  /\ ~cout.avail
  /\ cout.key \in DOMAIN csets

\* C14: while the backing store is unavailable, a get of a key within the ttl
\* of its last set returns the value that was set, whatever JSON value it is,
\* and a get after the ttl has elapsed returns the absent value and leaves
\* no entry of the key in the in-process map.
C14_FallbackRoundTripWithinTtl ==
  GotFromFallback
    => /\ (csets[cout.key].ex = 0 \/ cout.at < csets[cout.key].at + csets[cout.key].ex)
            => cout.val = csets[cout.key].val
       /\ (csets[cout.key].ex # 0 /\ cout.at > csets[cout.key].at + csets[cout.key].ex)
            => (cout.val = JNull /\ cout.key \notin DOMAIN world.mem)

\* a set of a value with a ttl, and a get of its key after the ttl elapsed
C14_Witness ==
  /\ GotFromFallback
  /\ csets[cout.key].ex # 0
  /\ csets[cout.key].val = JStr(<<>>)
  /\ cout.at > csets[cout.key].at + csets[cout.key].ex
  /\ cout.val = JNull

\* a falsy value was set and read back within its ttl
C14_WitnessFalsyValue ==
  /\ GotFromFallback
  /\ csets[cout.key].ex # 0
  /\ cout.at < csets[cout.key].at + csets[cout.key].ex
  /\ cout.val = JNum(0)

\* C17: the in-process map is safe under concurrent use: in every
\* interleaving of the gets and sets of simultaneously handled requests, two
\* reads of a key at the moment its entry has expired included, no operation
\* raises and every get returns the absent value or a value that a set
\* stored under the key.
C17_MemSafeUnderInterleaving ==
  \A t \in Threads :
    /\ mthr[t].pc # "raised"
    /\ (mthr[t].pc = "done" /\ mthr[t].op = "get")
         => (mthr[t].out = JNull \/ mthr[t].out \in mstored)

\* every get that returns gives the absent value or a value that was stored
C17_GetReturnsStoredValue ==
  \A t \in Threads :
    (mthr[t].pc = "done" /\ mthr[t].op = "get")
      => (mthr[t].out = JNull \/ mthr[t].out \in mstored)

\* ------------------------------------------ claims on the cache across outages
\* the sets made before the get, and those of the key whose ttl had not elapsed at time t; at the very end
\* of the ttl the set counts as elapsed when strict
SetsBeforeGet == SubSeq(osets, 1, oget.seen)

Unelapsed(key, t, strict) ==
  SelectSeq(SetsBeforeGet,
            LAMBDA s : /\ s.key = key
                       /\ \/ s.ex = NoTtl
                          \/ t < s.at + s.ex
                          \/ (~strict /\ t = s.at + s.ex))

\* C23: under any sequence of sets and gets during which the backing store
\* becomes unavailable and available again, a get that returns a value
\* returns the value of the most recent set of the key whose ttl has not
\* elapsed; a value written to the in-process map during an outage is not
\* returned after a later set of the key succeeded on the backing store.
C23_GetReturnsMostRecentSet ==
  (oget.done /\ oget.val # JNull)
    => \E strict \in BOOLEAN :
         /\ Unelapsed(oget.key, oget.at, strict) # <<>>
         /\ oget.val = Unelapsed(oget.key, oget.at, strict)
                         [Len(Unelapsed(oget.key, oget.at, strict))].val

\* the sets of the key made to the store that answered the get
SetsOfAnsweringStore ==
  SelectSeq(SetsBeforeGet, LAMBDA s : s.key = oget.key /\ s.avail = oget.avail)

\* a get that returns a value returns the value of the most recent set of
\* the key made to the store that answers the get: Redis when it answers,
\* the in-process map when it does not
C23_GetReturnsLastSetOfAnsweringStore ==
  (oget.done /\ oget.val # JNull)
    => /\ SetsOfAnsweringStore # <<>>
       /\ oget.val = SetsOfAnsweringStore[Len(SetsOfAnsweringStore)].val

\* a get during a second outage returned the value set during the first
\* one, although a later set had reached the backing store
C23_StaleFallbackValue ==
  /\ oget.done
  /\ ~oget.avail
  /\ oget.seen = 2
  /\ osets[1].key = oget.key /\ ~osets[1].avail
  /\ osets[2].key = oget.key /\ osets[2].avail
  /\ osets[2].val # osets[1].val
  /\ oget.val = osets[1].val

\* ------------------------------------------------ claims on the alias table
\* the callers of the burst: those that looked for the table before any
\* rebuild had ended and did not find it
Burst == {c \in Callers : acall[c].pc # "start" /\ acall[c].saw = 0}

\* the rebuilds issued by the callers of the burst
BurstRebuilds == {c \in Burst : acall[c].built}

\* C15: when several callers request the alias table while it is absent, at
\* most one rebuild is in progress at any moment, and the callers that
\* waited reuse its result: the burst issues one rebuild, whatever the
\* outcome of that rebuild.
C15_OneRebuildPerBurst ==
  /\ Cardinality(aflight) <= 1
  /\ Cardinality(BurstRebuilds) <= 1

\* at most one rebuild is in progress at any moment
C15_AtMostOneRebuildInFlight == Cardinality(aflight) <= 1

\* a caller of the burst that finds the table under the lock does not rebuild
C15_WaiterReusesStoredTable ==
  \A c \in Callers :
    (acall[c].pc = "done" /\ ~acall[c].built) => acall[c].aliases # <<>>

\* the letters and digits of a token, in lower case
Folded(token) == AlnumOnly(Lower(token))

\* the token differs from the alias at most in letter case, surrounding
\* whitespace and non-alphanumeric characters
SameToken(token, alias) ==
  token # None /\ Folded(token) # <<>> /\ Folded(token) = Folded(alias)

\* the aliases of the table the token is a variant of
AliasesOf(token, table) == {i \in 1..Len(table) : SameToken(token, table[i][1])}

\* C16: alias resolution is insensitive to letter case, surrounding whitespace
\* and non-alphanumeric characters: a token that differs from an alias of
\* the table only in these resolves to the id of that alias; a token that
\* is a variant of no alias, the empty token and the absent token resolve
\* to the absent value.
C16_ResolutionIgnoresCaseAndPunctuation ==
  rout.done
    => /\ \A i \in AliasesOf(rtoken, rout.table) : rout.coin = rout.table[i][2]
       /\ AliasesOf(rtoken, rout.table) = {} => rout.coin = None

\* the same for the aliases that consist of letters and digits
C16_AlnumAliasesResolve ==
  rout.done
    => /\ \A i \in AliasesOf(rtoken, rout.table) :
            rout.table[i][1] = Folded(rout.table[i][1]) => rout.coin = rout.table[i][2]
       /\ AliasesOf(rtoken, rout.table) = {} => rout.coin = None

\* ------------------------------------- claims on the cached alias table
\* the tables held under coin_aliases:v1, in Redis and in the in-process map
StoredTables ==
  {loads(world.rkv[k].raw).v : k \in {CACHE_KEY} \cap DOMAIN world.rkv}
    \cup {loads(world.mem[k].raw).v : k \in {CACHE_KEY} \cap DOMAIN world.mem}

\* the table has the symbol and the name of every coin of the listing
HasListing(table, listing) ==
  \A i \in 1..Len(listing) :
    /\ AliasGet(table, Lower(listing[i].symbol)) # None
    /\ AliasGet(table, Lower(listing[i].name)) # None

\* C21: an alias table written to the cache is never partial: a rebuild in
\* which either listing fetch fails writes nothing, so every cached table
\* has the symbol and name entries of both listings.
C21_CachedTableNeverPartial ==
  \A table \in StoredTables :
    HasListing(table, MarketData) /\ HasListing(table, CoinList)

\* every cached table has the entries of the market listing, the first one
\* fetched: a rebuild whose first fetch fails writes nothing
C21_CachedTableHasMarketListing ==
  \A table \in StoredTables : table # <<>> /\ HasListing(table, MarketData)

\* --------------------------------------------------- claims on the history
\* the inline items as user-only turns, followed by the stored turns
AllTurns ==
  [k \in 1..Len(hinline) |-> [user |-> hinline[k], assistant |-> EmptyContent]]
    \o hstored

\* the most recent HistoryMax of them, oldest first
MostRecentTurns ==
  [k \in 1..(IF Len(AllTurns) < HistoryMax THEN Len(AllTurns) ELSE HistoryMax) |->
     AllTurns[Len(AllTurns)
                - (IF Len(AllTurns) < HistoryMax THEN Len(AllTurns) ELSE HistoryMax)
                + k]]

\* the messages of the turns, in the order of the turns: first what the
\* user said, then what the assistant answered, where there is one
BothSides(turns) ==
  [k \in 1..(2 * Len(turns)) |->
     IF k % 2 = 1 THEN UserMessage(turns[(k + 1) \div 2].user)
     ELSE AssistantMessage(turns[k \div 2].assistant)]
SaidSomething(m) == IF m.role = "user" THEN m.text # <<>> ELSE NonEmpty(m.content)
MessagesOfTurns(turns) == SelectSeq(BothSides(turns), SaidSomething)

\* the messages between the system prompt and the text of the request
HistoryMessages == SubSeq(hout.messages, 2, Len(hout.messages) - 1)

\* C19: the history given to the model is the inline items, each a user-only
\* turn, followed by the stored turns, cut to the most recent 30; with or
\* without an inline history at most 30 turns reach the model context, in
\* their order.
C19_AtMostThirtyTurnsInOrder ==
  /\ (hout.stage # "start" /\ hinline # <<>>) => hout.history = MostRecentTurns
  /\ hout.stage = "sent"
       => /\ hout.messages[1] = SystemMessage
          /\ hout.messages[Len(hout.messages)] = UserMessage(t_now)
          /\ HistoryMessages = MessagesOfTurns(MostRecentTurns)
          /\ Len(MostRecentTurns) <= HistoryMax

\* a request without inline history whose session log is longer than 30 turns
C19_Witness ==
  /\ hout.stage = "sent"
  /\ hinline = <<>>
  /\ Len(hstored) > HistoryMax
  /\ Len(hout.history) > HistoryMax
  /\ HistoryMessages = MessagesOfTurns(SubSeq(hstored, Len(hstored) - HistoryMax + 1,
                                              Len(hstored)))

\* a request whose inline history pushes the oldest inline items out
C19_WitnessInlineCut ==
  /\ hout.stage = "sent"
  /\ Len(hinline) = InlineHistMax
  /\ Len(hstored) = HistoryMax - InlineHistMax + 1
  /\ hout.history[1].user = InlineItem(2)
  /\ hout.history[HistoryMax] = hstored[Len(hstored)]

\* -------------------------------------------------- claims on the session log
IsPrefixOf(s, t) == Len(s) <= Len(t) /\ s = SubSeq(t, 1, Len(s))

\* C20: the session log is append-only and ordered.  Whenever the store
\* answers, reading a session gives exactly the turns appended to it,
\* unchanged and oldest first, whatever was appended to the other session;
\* what a request read earlier is still the beginning of the log, so the
\* turn one request appended is in the history the next request of the
\* session reads.
C20_LogAppendOnlyAndOrdered ==
  /\ \A s \in LogSessions :
       RedisAnswers(world) => SessionStore_get_history(world, s) = lturns[s]
  /\ lread.done => IsPrefixOf(lread.turns, lturns[lread.sid])

\* a session was read after two appends to it and one to the other session
C20_Witness ==
  /\ lread.done
  /\ lread.sid = s_hist
  /\ Len(lread.turns) = 2
  /\ lread.turns = lturns[s_hist]
  /\ lread.turns[1].user = <<"\"", "a", "\\", "n">>
  /\ lread.turns[2].user = <<"h", "i">>
  /\ Len(lturns[s_other]) = 1

\* ------------------------------------------------ claims on the price branch
\* the entry of a key that a get of the cache would find, if any
LiveEntry(st, key) ==
  IF RedisAnswers(st)
    THEN (IF RedisLive(st.rkv, key, st.now) THEN <<st.rkv[key]>> ELSE <<>>)
  ELSE IF key \in DOMAIN st.mem /\ ~(st.mem[key].exp # 0 /\ st.mem[key].exp < st.now)
    THEN <<st.mem[key]>>
  ELSE <<>>

PriceKey(coin) == key_price \o coin \o key_usd

\* the facts of the last compose call of a request
LastFacts(trace) == trace.calls[Len(trace.calls)].facts

\* what the claim says of a price request for the resolved coin, with the
\* value cached before the request and the answer p of the live fetch
PriceRule(coin, cached, p, before, after, trace) ==
  /\ ("price" \in Range(trace.fetched)) => cached = JNull
  /\ (LiveEntry(after, PriceKey(coin)) # LiveEntry(before, PriceKey(coin)))
       => /\ "price" \in Range(trace.fetched)
          /\ ~p.exc
          /\ p.val # JNull
          /\ get_json(after, PriceKey(coin)).val = p.val
  /\ (cached # JNull \/ (~p.exc /\ p.val # JNull))
       => /\ trace.calls # <<>>
          /\ LastFacts(trace).coin = coin
          /\ LastFacts(trace).price_usd = (IF cached # JNull THEN cached ELSE p.val)

ResolvedCoin(st, request, trace) ==
  resolve_coin_id(st, request.env, extract_coin_from_price(trace.text)).coin

\* C18: in the price branch with a resolved coin, the live price is fetched
\* only when the cache holds no price of the coin, the cache entry is
\* written only after a live fetch that returned a price (not on a cache
\* hit, a not-found answer or a failed fetch), and the fact sheet carries
\* the resolved id as coin and as price_usd the cached price when there is
\* one, else the fetched price.
C18_PriceFetchedOnlyOnCacheMiss ==
  [][(Handled /\ did'.dispatched /\ did'.intent = "price"
        /\ ResolvedCoin(world, req', did') # None)
       => PriceRule(ResolvedCoin(world, req', did'),
                    get_json(world, PriceKey(ResolvedCoin(world, req', did'))).val,
                    get_price(req'.env, ResolvedCoin(world, req', did')),
                    world, world', did')]_vars

\* a price request was answered from the cache while the provider failed
C18_Witness ==
  /\ Answered
  /\ did.dispatched
  /\ did.intent = "price"
  /\ req.env.provider = "raise"
  /\ "price" \notin Range(did.fetched)
  /\ did.calls # <<>>
  /\ LastFacts(did).coin = c_bitcoin
  /\ LastFacts(did).price_usd = JNum(MarketData[1].current_price)

====
